---- MODULE Spec2Model ----
(***************************************************************************)
(* AutoLabelWithYolo: the project document (project.py), the main window  *)
(* that drives batch inference and navigation (ui.py) and the annotation  *)
(* box editor (image_editor.py), as one state machine.                     *)
(*                                                                         *)
(* Box coordinates are rationals with denominator Unit: a stored value v   *)
(* stands for v / Unit image pixels.  The display scale is a power of two, *)
(* so every product and quotient the editor computes in floating point is  *)
(* exact and is reproduced here in integer arithmetic.                     *)
(*                                                                         *)
(* Every Qt handler runs to completion on the GUI thread and is one        *)
(* action; a QTimer.singleShot callback is a pending tick counted in       *)
(* timers.                                                                 *)
(***************************************************************************)
EXTENDS Integers, Sequences, FiniteSets, TLC

VARIABLES
    current_project,      \* YOLOAnnotationTool.current_project: NoProject or the Project's fields
    current_image_idx,    \* YOLOAnnotationTool.current_image_idx
    current_process_idx,  \* YOLOAnnotationTool.current_process_idx
    model,                \* YOLOAnnotationTool.model: "none" or "loaded"
    timers,               \* pending QTimer.singleShot(1, process_next_image) callbacks
    disk,                 \* the project file on disk: NoFile or the JSON document
    image_editor,         \* the ImageEditor's fields
    widgets,              \* the buttons that are enabled, and the image list with its current item
    output,               \* the files and directories export has made in the output directory
    class_dialog,         \* the ClassManagementDialog that manage_classes is running, if any
    view,                 \* widget geometry: display scale and centering offset of the pixmap
    annotation_thread,    \* an AnnotationThread: its fields, and where its callers and run() are
    lastOp                \* history: the handler that ran last and what it did

vars == <<current_project, current_image_idx, current_process_idx, model,
          timers, disk, image_editor, widgets, output, class_dialog, view,
          annotation_thread, lastOp>>

-----------------------------------------------------------------------------
(* Bounds of the model *)

ImgW == 12          \* width of every image, in pixels
ImgH == 12          \* height of every image, in pixels
MaxZoom == 2        \* largest display scale (display pixels per image pixel)
MaxTimers == 2      \* cap on pending process_next_image callbacks
MaxLabeled == 100   \* largest number of labeled images the slice sizes are computed for
MaxClasses == 10    \* largest number of colours asked of generate_distinct_colors

-----------------------------------------------------------------------------
(* Values *)

NoProject == [none |-> TRUE]
NoFile == [kind |-> "missing"]
NoImage == <<>>
TheImage == <<ImgW, ImgH>>

Max(a, b) == IF a >= b THEN a ELSE b
Min(a, b) == IF a <= b THEN a ELSE b
Abs(a) == IF a >= 0 THEN a ELSE 0 - a

\* the display scales pixmap.width() / image.shape[1] the model draws from
Zooms == {z \in 1..MaxZoom : \E k \in 0..MaxZoom : z = 2^k}
\* denominator of stored coordinates: the largest scale
Unit == CHOOSE z \in Zooms : \A y \in Zooms : y <= z

\* the centering offsets (self.width() - pixmap.width()) // 2 the model draws from
Offsets == {3}

Range(s) == {s[i] : i \in DOMAIN s}

RECURSIVE IndexOf(_, _, _)
\* list.index: position (from 1) of the first x in s at or after i, 0 when absent
IndexOf(s, x, i) ==
    IF i > Len(s) THEN 0
    ELSE IF s[i] = x THEN i ELSE IndexOf(s, x, i + 1)

RemoveAt(s, i) == [j \in 1..(Len(s) - 1) |-> IF j < i THEN s[j] ELSE s[j + 1]]

-----------------------------------------------------------------------------
(* utils.py *)

base_colors ==
    << <<255, 0, 0>>, <<0, 255, 0>>, <<0, 0, 255>>, <<255, 255, 0>>,
       <<255, 0, 255>>, <<0, 255, 255>>, <<255, 165, 0>>, <<128, 0, 128>> >>

\* Random numbers are twentieths: a draw is the three values the loop body takes
\* from random for one colour, hue for random.uniform(-0.05, 0.05) * 20, sat for
\* (0.6 + 0.2 * random.random()) * 20 and val for (0.8 + 0.1 * random.random()) * 20.
ColorDraw == [hue : {-1, 0, 1}, sat : 12..15, val : 16..17]

\* the draws of one call, used in turn and again from the first: the sequences the
\* main window's model draws from
RandomDraws ==
    { << [hue |-> 0, sat |-> 12, val |-> 16] >>,
      << [hue |-> 1, sat |-> 15, val |-> 17], [hue |-> -1, sat |-> 13, val |-> 16] >> }

\* generate_distinct_colors that hands out the predefined colours for every n
generate_distinct_colors_base(n, rnd) ==
    IF n <= 0 THEN <<>> ELSE SubSeq(base_colors, 1, Min(n, Len(base_colors)))

\* generate_distinct_colors(n); rnd stands for the calls to random of the n > 8 branch.
\* The arithmetic of colorsys.hsv_to_rgb is done on exact fractions: the hue of colour
\* i is hn / (20 * n), and int(c * 255) is the floor of 255 * c.
generate_distinct_colors(n, rnd) ==
    IF n <= 0 THEN <<>>
    ELSE IF n <= 8 THEN SubSeq(base_colors, 1, n)
    ELSE
    LET H == 20 * n
        \* which of v, t, p, q a channel takes in sextant i = int(h * 6) % 6
        sextant == << <<"v", "t", "p">>, <<"q", "v", "p">>, <<"p", "v", "t">>,
                      <<"p", "q", "v">>, <<"t", "p", "v">>, <<"v", "p", "q">> >>
        \* v, t, p and q times 400 * H, fn / H being the fraction f of the hue
        Channel(name, d, fn) ==
            IF name = "v" THEN d.val * 20 * H
            ELSE IF name = "p" THEN d.val * (20 - d.sat) * H
            ELSE IF name = "q" THEN d.val * (20 * H - d.sat * fn)
            ELSE d.val * (20 * H - d.sat * (H - fn))
        \* colorsys.hsv_to_rgb for hue hn / H, then int(c * 255) of each channel
        hsv_to_rgb(hn, d) ==
            [c \in 1..3 |->
                (255 * Channel(sextant[(((6 * hn) \div H) % 6) + 1][c], d, (6 * hn) % H))
                    \div (400 * H)]
        Draw(k) == rnd[((k - 1) % Len(rnd)) + 1]
    IN  [k \in 1..n |-> hsv_to_rgb((20 * (k - 1) + Draw(k).hue * n) % H, Draw(k))]

-----------------------------------------------------------------------------
(* The environment: image directories, the detector, project files *)

DirA == "A"
DirB == "B"
ImageDirs == {DirA, DirB}

\* a directory with more images than one checkpoint interval
DirC == "C"

\* os.listdir(dir) filtered to image extensions and joined with the directory
ListImages(dir) ==
    IF dir = DirA THEN <<"A/1.jpg", "A/2.jpg", "A/3.jpg">>
    ELSE IF dir = DirB THEN <<"B/1.jpg">>
    ELSE IF dir = DirC THEN <<"C/01.jpg", "C/02.jpg", "C/03.jpg", "C/04.jpg", "C/05.jpg",
                              "C/06.jpg", "C/07.jpg", "C/08.jpg", "C/09.jpg", "C/10.jpg",
                              "C/11.jpg">>
    ELSE <<>>

AllPaths == UNION {Range(ListImages(d)) : d \in ImageDirs \cup {DirC}}

\* a path a project may hold a record for although its image file has been deleted
GonePath == "A/9.jpg"

\* a fixed order of the paths, used where the code iterates a dict
PathOrder == <<"A/1.jpg", "A/2.jpg", "A/3.jpg", "B/1.jpg", GonePath>> \o ListImages(DirC)

\* result.names of the detector model; class index cls is names entry cls + 1
model_names == <<"person", "bicycle", "car", "dog">>

\* confidences are percentages: 25 stands for 0.25
confidence_threshold == 25

\* the model file YOLO() can load
GoodModel == "yolo.pt"

\* What cv2.imread and the detector give for a path: deterministic per path.
\* boxes are in pixels, as int(x1), int(y1), int(x2), int(y2) leave them.
Detect(path) ==
    IF path = "A/1.jpg" THEN
        [readable |-> TRUE, raises |-> FALSE,
         boxes |-> << [xyxy |-> <<0, 0, 12, 12>>, conf |-> 90, cls |-> 0],
                      [xyxy |-> <<2, 2, 6, 6>>, conf |-> 80, cls |-> 3],
                      [xyxy |-> <<1, 1, 3, 3>>, conf |-> 10, cls |-> 2] >>]
    ELSE IF path \in {"A/2.jpg", "C/10.jpg"} THEN
        [readable |-> FALSE, raises |-> FALSE, boxes |-> <<>>]
    ELSE IF path = "A/3.jpg" THEN
        [readable |-> TRUE, raises |-> FALSE, boxes |-> <<>>]
    ELSE
        [readable |-> TRUE, raises |-> FALSE,
         boxes |-> << [xyxy |-> <<4, 4, 8, 8>>, conf |-> 70, cls |-> 2] >>]

\* the taxonomies a user types into new_project
ClassInputs == { <<"person", "car">> }

ProjectFile == "p.yap"
ProjectNames == {"demo"}

-----------------------------------------------------------------------------
(* Annotation objects.  An annotation dict has an identity (oid): two lists *)
(* that hold the same dict see each other's item assignments.               *)

Px(v) == v * Unit

OidsOf(anns) == {anns[i].oid : i \in DOMAIN anns}

OidsOfProject(p) ==
    IF p = NoProject THEN {}
    ELSE UNION {OidsOf(p.processed_images[q].anns) : q \in DOMAIN p.processed_images}

RECURSIVE FreshOids(_, _, _)
\* the k smallest identities from n on that are not in used
FreshOids(used, k, n) ==
    IF k = 0 THEN <<>>
    ELSE IF n \in used THEN FreshOids(used, k, n + 1)
    ELSE <<n>> \o FreshOids(used, k - 1, n + 1)

\* the annotation dicts as json.dump writes them: the values, without identity
StripOids(anns) ==
    [i \in DOMAIN anns |->
        [box |-> anns[i].box, confidence |-> anns[i].confidence,
         class_id |-> anns[i].class_id, class |-> anns[i].class]]

WithOids(janns, used) ==
    LET ids == FreshOids(used, Len(janns), 1)
    IN  [i \in DOMAIN janns |->
            [oid |-> ids[i], box |-> janns[i].box, confidence |-> janns[i].confidence,
             class_id |-> janns[i].class_id, class |-> janns[i].class]]

-----------------------------------------------------------------------------
(* project.py: class Project *)

DefaultClassNames ==
    <<"person", "bicycle", "car", "motorcycle", "airplane", "bus",
      "train", "truck", "boat", "traffic light">>

\* the colours Project.__init__ generates for the default classes, for each of
\* the draws it can make
DefaultColors ==
    [rnd \in RandomDraws |-> generate_distinct_colors(Len(DefaultClassNames), rnd)]

\* Project.__init__
ProjectInit(name, path, rnd) ==
    [path |-> path,
     name |-> IF name = "" THEN "unnamed" ELSE name,
     image_dir |-> "", model_path |-> "", output_dir |-> "",
     class_names |-> DefaultClassNames,
     class_colors |-> DefaultColors[rnd],
     last_processed_index |-> 0,
     image_paths |-> <<>>,
     processed_images |-> <<>>,
     labeled |-> {}]

\* dict item assignment d[k] = v
Put(d, k, v) == [x \in (DOMAIN d) \cup {k} |-> IF x = k THEN v ELSE d[x]]
\* del d[k]
Del(d, k) == [x \in (DOMAIN d) \ {k} |-> d[x]]
\* dict.get(k, default)
Get(d, k, default) == IF k \in DOMAIN d THEN d[k] ELSE default

\* Project.update_labeled_status
update_labeled_status(p, image_path, has) ==
    IF has THEN [p EXCEPT !.labeled = @ \cup {image_path}]
    ELSE IF image_path \in p.labeled THEN [p EXCEPT !.labeled = @ \ {image_path}]
    ELSE p

\* Project.has_annotations: the value returned
has_annotations(p, image_path) ==
    IF image_path \in p.labeled THEN TRUE
    ELSE IF image_path \in DOMAIN p.processed_images
         THEN Len(p.processed_images[image_path].anns) > 0
    ELSE FALSE

\* Project.has_annotations: the project after the call (the cache refresh)
has_annotations_effect(p, image_path) ==
    IF image_path \in p.labeled THEN p
    ELSE IF image_path \in DOMAIN p.processed_images
         THEN update_labeled_status(p, image_path, Len(p.processed_images[image_path].anns) > 0)
    ELSE p

\* Project.add_image_annotation
add_image_annotation(p, image_path, image, annotations) ==
    update_labeled_status(
        [p EXCEPT !.processed_images = Put(@, image_path, [image |-> image, anns |-> annotations])],
        image_path, Len(annotations) > 0)

\* Project.remove_image_annotation
remove_image_annotation(p, image_path) ==
    IF image_path \in DOMAIN p.processed_images
    THEN update_labeled_status([p EXCEPT !.processed_images = Del(@, image_path)], image_path, FALSE)
    ELSE p

total_count(p) == Len(p.image_paths)
processed_count(p) == Cardinality(p.labeled)
is_ready(p) == p.image_dir # "" /\ p.model_path # "" /\ total_count(p) > 0

\* the document Project.save dumps: annotation lists only, no image data
SaveDocument(p) ==
    [name |-> p.name, image_dir |-> p.image_dir, model_path |-> p.model_path,
     output_dir |-> p.output_dir, class_names |-> p.class_names,
     class_colors |-> p.class_colors,
     last_processed_index |-> p.last_processed_index,
     image_paths |-> p.image_paths,
     annotations |-> [q \in DOMAIN p.processed_images |-> StripOids(p.processed_images[q].anns)]]

\* a file name with no directory part: os.path.dirname gives "" for it
BareFile == "bare.yap"

\* what the file system does to one Project.save: nothing wrong ("ok"), os.makedirs
\* fails ("mkdir"), open(path, 'w') fails ("open"), json.dump fails part-way ("write")
SaveFaults == {"ok", "mkdir", "open", "write"}

\* Project.save(path) under the fault io: the project (its path) and the file after
\* the call, the value returned, and raised where an exception leaves the method.
\* os.makedirs runs before the try block; os.makedirs("") raises FileNotFoundError.
\* open(path, 'w') truncates the file before json.dump writes the first byte.
ProjectSave(p, path, file, io) ==
    LET p1 == IF path # "" THEN [p EXCEPT !.path = path] ELSE p
    IN  IF p1.path = ""
        THEN [project |-> p1, file |-> file, ok |-> FALSE, raised |-> FALSE]
        ELSE IF p1.path = BareFile \/ io = "mkdir"
        THEN [project |-> p1, file |-> file, ok |-> FALSE, raised |-> TRUE]
        ELSE IF io = "open"
        THEN [project |-> p1, file |-> file, ok |-> FALSE, raised |-> FALSE]
        ELSE IF io = "write"
        THEN [project |-> p1, file |-> [kind |-> "notjson"], ok |-> FALSE, raised |-> FALSE]
        ELSE [project |-> p1,
              file |-> [kind |-> "json", isdict |-> TRUE, annsdict |-> TRUE, data |-> SaveDocument(p1)],
              ok |-> TRUE, raised |-> FALSE]

\* os.path.exists for an image path
ImageFileExists(path) == path \in AllPaths

RECURSIVE LoadAnnotationsNonEmpty(_, _, _, _)
\* the loop of Project.load, keeping a record only where the saved list is non-empty
LoadAnnotationsNonEmpty(p, annotations, used, i) ==
    IF i > Len(PathOrder) THEN p
    ELSE LET q == PathOrder[i]
         IN  IF q \in DOMAIN annotations /\ ImageFileExists(q) /\ Len(annotations[q]) > 0
             THEN LET anns == WithOids(annotations[q], used)
                      p1 == [p EXCEPT !.processed_images = Put(@, q, [image |-> FALSE, anns |-> anns]),
                                      !.labeled = @ \cup {q}]
                  IN  LoadAnnotationsNonEmpty(p1, annotations, used \cup OidsOf(anns), i + 1)
             ELSE LoadAnnotationsNonEmpty(p, annotations, used, i + 1)

RECURSIVE LoadAnnotationsAllLabeled(_, _, _, _)
\* the loop of Project.load, adding every loaded path to the labeled cache
LoadAnnotationsAllLabeled(p, annotations, used, i) ==
    IF i > Len(PathOrder) THEN p
    ELSE LET q == PathOrder[i]
         IN  IF q \in DOMAIN annotations /\ ImageFileExists(q)
             THEN LET anns == WithOids(annotations[q], used)
                      p1 == [p EXCEPT !.processed_images = Put(@, q, [image |-> FALSE, anns |-> anns]),
                                      !.labeled = @ \cup {q}]
                  IN  LoadAnnotationsAllLabeled(p1, annotations, used \cup OidsOf(anns), i + 1)
             ELSE LoadAnnotationsAllLabeled(p, annotations, used, i + 1)

RECURSIVE LoadAnnotationsAnyFile(_, _, _, _)
\* the loop of Project.load without the os.path.exists test of line 139
LoadAnnotationsAnyFile(p, annotations, used, i) ==
    IF i > Len(PathOrder) THEN p
    ELSE LET q == PathOrder[i]
         IN  IF q \in DOMAIN annotations
             THEN LET anns == WithOids(annotations[q], used)
                      p1 == [p EXCEPT !.processed_images = Put(@, q, [image |-> FALSE, anns |-> anns]),
                                      !.labeled = IF Len(anns) > 0 THEN @ \cup {q} ELSE @]
                  IN  LoadAnnotationsAnyFile(p1, annotations, used \cup OidsOf(anns), i + 1)
             ELSE LoadAnnotationsAnyFile(p, annotations, used, i + 1)

RECURSIVE LoadAnnotations(_, _, _, _)
\* the loop over annotations.items() of Project.load, from position i of the path order
LoadAnnotations(p, annotations, used, i) ==
    IF i > Len(PathOrder) THEN p
    ELSE LET q == PathOrder[i]
         IN  IF q \in DOMAIN annotations /\ ImageFileExists(q)
             THEN LET anns == WithOids(annotations[q], used)
                      p1 == [p EXCEPT !.processed_images = Put(@, q, [image |-> FALSE, anns |-> anns]),
                                      !.labeled = IF Len(anns) > 0 THEN @ \cup {q} ELSE @]
                  IN  LoadAnnotations(p1, annotations, used \cup OidsOf(anns), i + 1)
             ELSE LoadAnnotations(p, annotations, used, i + 1)

\* Project.load(path): the project after the call and the value returned.
\* used: identities of annotation dicts that are alive elsewhere (the editor's).
ProjectLoad(p, path, file, used, rnd) ==
    IF file.kind = "missing" THEN [project |-> p, ok |-> FALSE]
    ELSE
    LET p1 == [p EXCEPT !.path = path]
    IN  IF file.kind # "json" \/ ~file.isdict THEN [project |-> p1, ok |-> FALSE]
        ELSE
        LET data == file.data
            names == Get(data, "class_names", <<>>)
            colors0 == Get(data, "class_colors", generate_distinct_colors(Len(names), rnd))
            colors == IF Len(colors0) # Len(names)
                      THEN generate_distinct_colors(Len(names), rnd) ELSE colors0
            p2 == [p1 EXCEPT !.name = Get(data, "name", "unnamed"),
                             !.image_dir = Get(data, "image_dir", ""),
                             !.model_path = Get(data, "model_path", ""),
                             !.output_dir = Get(data, "output_dir", ""),
                             !.class_names = names,
                             !.class_colors = colors,
                             !.last_processed_index = Get(data, "last_processed_index", 0),
                             !.image_paths = Get(data, "image_paths", <<>>),
                             !.processed_images = <<>>,
                             !.labeled = {}]
            annotations == Get(data, "annotations", <<>>)
        IN  IF ~file.annsdict THEN [project |-> p2, ok |-> FALSE]
            ELSE [project |-> LoadAnnotations(p2, annotations, used, 1), ok |-> TRUE]

-----------------------------------------------------------------------------
(* image_editor.py: class ImageEditor *)

control_size == 10      \* the handle tolerance of mousePressEvent, in display pixels

\* drag_handle None; the handles are "top_left", "top_right", "bottom_left",
\* "bottom_right" and "center"
NoHandle == "none"

\* ImageEditor.__init__
EditorInit ==
    [image |-> NoImage, annotations |-> <<>>, class_names |-> <<>>, class_colors |-> <<>>,
     current_box_idx |-> -1, dragging |-> FALSE, drag_handle |-> NoHandle,
     last_pos |-> <<0, 0>>, during_drag_operation |-> FALSE]

\* ImageEditor.set_image
set_image(ed, image) ==
    [ed EXCEPT !.image = image, !.annotations = <<>>, !.current_box_idx = -1]

\* ImageEditor.set_annotations: a new list of the same dicts
set_annotations(ed, annotations) ==
    [ed EXCEPT !.annotations = annotations, !.current_box_idx = -1]

\* ImageEditor.set_class_info
set_class_info(ed, class_names, class_colors) ==
    [ed EXCEPT !.class_names = class_names,
               !.class_colors = IF Len(class_colors) # Len(class_names)
                                THEN generate_distinct_colors(Len(class_names), CHOOSE r \in RandomDraws : TRUE)
                                ELSE class_colors]

\* v * scale + pixmap offset, times Unit: the display coordinate of a stored coordinate
Scaled(v, zoom, off) == v * zoom + off * Unit

\* d * inv_scale: the stored coordinate of a display distance d
ToImage(d, zoom) == (d * Unit) \div zoom

\* abs(pos - h) <= control_size on both axes
NearHandle(pos, hx, hy) ==
    /\ Abs(pos[1] * Unit - hx) <= control_size * Unit
    /\ Abs(pos[2] * Unit - hy) <= control_size * Unit

\* the handle of one box that a press at pos takes: corners first, then the body
HitHandle(box, pos, v) ==
    LET x1 == Scaled(box[1], v.zoom, v.off_x)
        y1 == Scaled(box[2], v.zoom, v.off_y)
        x2 == Scaled(box[3], v.zoom, v.off_x)
        y2 == Scaled(box[4], v.zoom, v.off_y)
    IN  IF NearHandle(pos, x1, y1) THEN "top_left"
        ELSE IF NearHandle(pos, x2, y1) THEN "top_right"
        ELSE IF NearHandle(pos, x1, y2) THEN "bottom_left"
        ELSE IF NearHandle(pos, x2, y2) THEN "bottom_right"
        ELSE IF /\ x1 <= pos[1] * Unit /\ pos[1] * Unit <= x2
                /\ y1 <= pos[2] * Unit /\ pos[2] * Unit <= y2 THEN "center"
        ELSE NoHandle

RECURSIVE LastHit(_, _, _, _)
\* the loop of mousePressEvent without its return: the last box hit wins
LastHit(annotations, pos, v, i) ==
    IF i > Len(annotations) THEN 0
    ELSE IF LastHit(annotations, pos, v, i + 1) # 0 THEN LastHit(annotations, pos, v, i + 1)
    ELSE IF HitHandle(annotations[i].box, pos, v) # NoHandle THEN i
    ELSE 0

RECURSIVE FirstHit(_, _, _, _)
\* the loop of mousePressEvent: index (from 1) of the first box hit, 0 when none
FirstHit(annotations, pos, v, i) ==
    IF i > Len(annotations) THEN 0
    ELSE IF HitHandle(annotations[i].box, pos, v) # NoHandle THEN i
    ELSE FirstHit(annotations, pos, v, i + 1)

\* max(0, min(x, limit))
Clamp(x, limit) == Max(0, Min(x, limit))

\* "avoid zero width": the pair (lo, hi) after the nudge
Nudge(lo, hi) ==
    IF lo = hi THEN (IF lo > 0 THEN <<lo - Px(1), hi>> ELSE <<lo, hi + Px(1)>>)
    ELSE <<lo, hi>>

\* clamp, order and nudge one axis, as mouseMoveEvent does after moving the corners
Normalize(a, b, limit) ==
    LET ca == Clamp(a, limit)
        cb == Clamp(b, limit)
        lo == IF ca > cb THEN cb ELSE ca
        hi == IF ca > cb THEN ca ELSE cb
    IN  Nudge(lo, hi)

\* the box mouseMoveEvent stores for a pointer at pos
DragBox(box, handle, pos, last_pos, v, image) ==
    LET px == ToImage(pos[1] - v.off_x, v.zoom)
        py == ToImage(pos[2] - v.off_y, v.zoom)
        dx == ToImage(pos[1] - last_pos[1], v.zoom)
        dy == ToImage(pos[2] - last_pos[2], v.zoom)
        nx1 == IF handle = "center" THEN box[1] + dx
               ELSE IF handle \in {"top_left", "bottom_left"} THEN px ELSE box[1]
        ny1 == IF handle = "center" THEN box[2] + dy
               ELSE IF handle \in {"top_left", "top_right"} THEN py ELSE box[2]
        nx2 == IF handle = "center" THEN box[3] + dx
               ELSE IF handle \in {"top_right", "bottom_right"} THEN px ELSE box[3]
        ny2 == IF handle = "center" THEN box[4] + dy
               ELSE IF handle \in {"bottom_left", "bottom_right"} THEN py ELSE box[4]
        xs == Normalize(nx1, nx2, Px(image[1]))
        ys == Normalize(ny1, ny2, Px(image[2]))
    IN  <<xs[1], ys[1], xs[2], ys[2]>>

\* item assignment annot["box"] = box on the dict oid, seen by every list that holds it
SetBox(anns, oid, box) ==
    [i \in DOMAIN anns |-> IF anns[i].oid = oid THEN [anns[i] EXCEPT !.box = box] ELSE anns[i]]

SetBoxInProject(p, oid, box) ==
    IF p = NoProject THEN p
    ELSE [p EXCEPT !.processed_images =
            [q \in DOMAIN @ |-> [@[q] EXCEPT !.anns = SetBox(@, oid, box)]]]

-----------------------------------------------------------------------------
(* ui.py: class YOLOAnnotationTool.  A handler is a function from the      *)
(* window's state s (a record of the fields above) to the state it leaves. *)

SaveEvery == 10     \* on_single_image_processed checkpoints every 10th image

\* the window's fields as one value
Window ==
    [project |-> current_project, image_idx |-> current_image_idx,
     process_idx |-> current_process_idx, model |-> model, timers |-> timers,
     disk |-> disk, editor |-> image_editor, widgets |-> widgets,
     output |-> output, dialog |-> class_dialog,
     calls |-> <<>>, failed |-> <<>>, saves |-> 0]

HasProject(s) == s.project # NoProject

\* YOLOAnnotationTool.set_widgets_enabled
set_widgets_enabled(s, enabled) ==
    [s EXCEPT !.widgets =
        [@ EXCEPT !.config = enabled,
                  !.process_btn = enabled /\ HasProject(s) /\ is_ready(s.project),
                  !.prev_btn = enabled /\ s.image_idx > 0,
                  !.next_btn = enabled /\ HasProject(s)
                                  /\ s.image_idx < Len(s.project.image_paths) - 1,
                  !.complete_btn = enabled /\ s.image_idx >= 0]]

\* QListWidget.currentItem() of an image list with no current item
NoSelection == ""

\* image_list.setCurrentItem on the item of image_path, when the list has one
SelectItem(s, image_path) ==
    IF image_path \in Range(s.widgets.image_list)
    THEN [s EXCEPT !.widgets.selected = image_path] ELSE s

\* YOLOAnnotationTool.update_image_list with filter_mode "all": ok is FALSE where
\* image_paths[current_image_idx] raises IndexError
update_image_list(s) ==
    IF ~HasProject(s)
    THEN [s |-> [s EXCEPT !.widgets.image_list = <<>>, !.widgets.selected = NoSelection],
          ok |-> TRUE]
    ELSE
    LET current_selected == s.widgets.selected
        filtered_paths == s.project.image_paths
        rebuilt == Len(s.widgets.image_list) # Len(filtered_paths)
        s1 == IF rebuilt
              THEN [s EXCEPT !.widgets.image_list = filtered_paths,
                             !.widgets.selected = NoSelection]
              ELSE s
    IN  IF current_selected # NoSelection
        THEN [s |-> SelectItem(s1, current_selected), ok |-> TRUE]
        ELSE IF Len(s1.widgets.image_list) > 0 /\ s.image_idx >= 0
        THEN IF s.image_idx >= Len(filtered_paths)
             THEN [s |-> s1, ok |-> FALSE]
             ELSE [s |-> SelectItem(s1, filtered_paths[s.image_idx + 1]), ok |-> TRUE]
        ELSE [s |-> s1, ok |-> TRUE]

\* YOLOAnnotationTool.update_nav_buttons
update_nav_buttons(s) ==
    IF ~HasProject(s) THEN s
    ELSE [s EXCEPT !.widgets.prev_btn = s.image_idx > 0,
                   !.widgets.next_btn = s.image_idx < Len(s.project.image_paths) - 1,
                   !.widgets.complete_btn = TRUE]

\* YOLOAnnotationTool.check_process_ready
check_process_ready(s) ==
    [s EXCEPT !.widgets.process_btn = HasProject(s) /\ is_ready(s.project)]

\* YOLOAnnotationTool.save_project
save_project(s) ==
    IF ~HasProject(s) THEN s
    ELSE LET p1 == IF s.image_idx >= 0
                   THEN [s.project EXCEPT !.last_processed_index = s.image_idx]
                   ELSE s.project
             r == ProjectSave(p1, IF p1.path = "" THEN ProjectFile ELSE "", s.disk, "ok")
         IN  [s EXCEPT !.project = r.project, !.disk = r.file, !.saves = @ + 1]

\* YOLOAnnotationTool.update_single_item_in_list: its effect on the project
update_single_item_in_list(s, image_path) ==
    LET s1 == IF image_path \in Range(s.widgets.image_list) THEN s
              ELSE [s EXCEPT !.widgets.image_list = Append(@, image_path)]
    IN  IF image_path \in DOMAIN s.project.processed_images
        THEN [s1 EXCEPT !.project = has_annotations_effect(@, image_path)]
        ELSE s1

\* the annotations built from every box that passes the confidence threshold
BuildAnnotationsAnyClass(boxes, class_names, used) ==
    LET Keep(b) == b.conf >= confidence_threshold
        kept == SelectSeq(boxes, Keep)
        ids == FreshOids(used, Len(kept), 1)
    IN  [i \in DOMAIN kept |->
            [oid |-> ids[i],
             box |-> <<Px(kept[i].xyxy[1]), Px(kept[i].xyxy[2]), Px(kept[i].xyxy[3]), Px(kept[i].xyxy[4])>>,
             confidence |-> kept[i].conf,
             class_id |-> kept[i].cls,
             class |-> model_names[kept[i].cls + 1]]]

\* the annotations process_single_image builds from the detector's boxes
BuildAnnotations(boxes, class_names, used) ==
    LET Keep(b) == b.conf >= confidence_threshold /\ model_names[b.cls + 1] \in Range(class_names)
        kept == SelectSeq(boxes, Keep)
        ids == FreshOids(used, Len(kept), 1)
    IN  [i \in DOMAIN kept |->
            [oid |-> ids[i],
             box |-> <<Px(kept[i].xyxy[1]), Px(kept[i].xyxy[2]), Px(kept[i].xyxy[3]), Px(kept[i].xyxy[4])>>,
             confidence |-> kept[i].conf,
             class_id |-> kept[i].cls,
             class |-> model_names[kept[i].cls + 1]]]

\* YOLOAnnotationTool.process_single_image: ok is FALSE where the code raises
process_single_image(s, image_path) ==
    LET loaded == s.model = "loaded" \/ s.project.model_path = GoodModel
        d == Detect(image_path)
        s1 == IF loaded THEN [s EXCEPT !.model = "loaded"] ELSE s
    IN  IF ~loaded THEN [s |-> s1, ok |-> FALSE, annotations |-> <<>>]
        ELSE IF ~d.readable THEN [s |-> s1, ok |-> FALSE, annotations |-> <<>>]
        ELSE IF d.raises THEN
            [s |-> [s1 EXCEPT !.calls = Append(@, image_path)], ok |-> FALSE, annotations |-> <<>>]
        ELSE [s |-> [s1 EXCEPT !.calls = Append(@, image_path)], ok |-> TRUE,
              annotations |-> BuildAnnotations(d.boxes, s.project.class_names,
                                  OidsOfProject(s.project) \cup OidsOf(s.editor.annotations))]

\* the tail of show_current_image: display the stored record of image_path
ShowRecord(s, image_path) ==
    IF image_path \in DOMAIN s.project.processed_images
    THEN LET rec == s.project.processed_images[image_path]
             image == rec.image \/ Detect(image_path).readable
             s1 == IF ~rec.image /\ image
                   THEN [s EXCEPT !.project.processed_images[image_path].image = TRUE]
                   ELSE s
             s2 == SelectItem(s1, image_path)
         IN  IF image
             THEN [s2 EXCEPT !.editor = set_annotations(set_image(@, TheImage), rec.anns)]
             ELSE [s2 EXCEPT !.editor = set_annotations(set_image(@, NoImage), <<>>)]
    ELSE [s EXCEPT !.editor = set_annotations(set_image(@, NoImage), <<>>)]

\* YOLOAnnotationTool.show_current_image
show_current_image(s) ==
    IF ~HasProject(s) \/ s.image_idx < 0 \/ s.image_idx >= Len(s.project.image_paths) THEN s
    ELSE
    LET image_path == s.project.image_paths[s.image_idx + 1]
        s0 == [s EXCEPT !.project = has_annotations_effect(@, image_path)]
    IN  IF ~has_annotations(s.project, image_path)
        THEN LET r == process_single_image(s0, image_path)
             IN  IF r.ok
                 THEN ShowRecord(
                        update_single_item_in_list(
                          [r.s EXCEPT !.project.processed_images =
                              Put(@, image_path, [image |-> TRUE, anns |-> r.annotations])],
                          image_path),
                        image_path)
                 ELSE [r.s EXCEPT !.editor = set_annotations(set_image(@, NoImage), <<>>),
                                  !.failed = Append(@, image_path)]
        ELSE ShowRecord(s0, image_path)


\* YOLOAnnotationTool.on_annotation_updated
on_annotation_updated(s, annotations) ==
    IF ~HasProject(s) \/ s.image_idx < 0 \/ s.image_idx >= Len(s.project.image_paths) THEN s
    ELSE
    LET image_path == s.project.image_paths[s.image_idx + 1]
    IN  IF image_path \in DOMAIN s.project.processed_images
        THEN LET s1 == update_single_item_in_list(
                          [s EXCEPT !.project.processed_images[image_path].anns = annotations],
                          image_path)
             IN  IF ~s1.editor.during_drag_operation THEN save_project(s1) ELSE s1
        ELSE s

\* YOLOAnnotationTool.on_single_image_processed
on_single_image_processed(s, image_path, annotations) ==
    LET s1 == [s EXCEPT !.project.processed_images =
                            Put(@, image_path, [image |-> TRUE, anns |-> annotations]),
                        !.project.last_processed_index = s.process_idx,
                        !.project.labeled = @ \cup {image_path}]
        s2 == update_single_item_in_list(s1, image_path)
        s3 == show_current_image([s2 EXCEPT !.image_idx = s.process_idx])
        total == Len(s3.project.image_paths)
        s4 == IF (s3.process_idx + 1) % SaveEvery = 0 \/ s3.process_idx + 1 = total
              THEN save_project(s3) ELSE s3
        s5 == [set_widgets_enabled(s4, TRUE) EXCEPT !.widgets.complete_btn = TRUE]
    IN  [s5 EXCEPT !.process_idx = @ + 1, !.timers = @ + 1]

\* YOLOAnnotationTool.on_processing_finished
on_processing_finished(s) ==
    LET s1 == save_project(set_widgets_enabled(s, TRUE))
    IN  IF Cardinality(DOMAIN s1.project.processed_images) > 0
           /\ s1.image_idx = -1 /\ Len(s1.project.image_paths) > 0
        THEN update_nav_buttons(show_current_image([s1 EXCEPT !.image_idx = 0]))
        ELSE s1

\* process_next_image without the check of lines 781-786
process_next_image_noskip(s) ==
    IF s.process_idx >= Len(s.project.image_paths) THEN on_processing_finished(s)
    ELSE
    LET current_image_path == s.project.image_paths[s.process_idx + 1]
        r == process_single_image(s, current_image_path)
    IN  IF r.ok
        THEN on_single_image_processed(r.s, current_image_path, r.annotations)
        ELSE [r.s EXCEPT !.failed = Append(@, current_image_path),
                         !.process_idx = @ + 1, !.timers = @ + 1]

\* process_next_image whose except branch reports the failure and returns
process_next_image_halt(s) ==
    IF s.process_idx >= Len(s.project.image_paths) THEN on_processing_finished(s)
    ELSE
    LET current_image_path == s.project.image_paths[s.process_idx + 1]
    IN  IF current_image_path \in DOMAIN s.project.processed_images
        THEN [s EXCEPT !.process_idx = @ + 1, !.timers = @ + 1]
        ELSE LET r == process_single_image(s, current_image_path)
             IN  IF r.ok
                 THEN on_single_image_processed(r.s, current_image_path, r.annotations)
                 ELSE [r.s EXCEPT !.failed = Append(@, current_image_path)]

\* YOLOAnnotationTool.process_next_image, run by one pending timer
process_next_image(s) ==
    IF s.process_idx >= Len(s.project.image_paths) THEN on_processing_finished(s)
    ELSE
    LET current_image_path == s.project.image_paths[s.process_idx + 1]
    IN  IF current_image_path \in DOMAIN s.project.processed_images
        THEN [s EXCEPT !.process_idx = @ + 1, !.timers = @ + 1]
        ELSE LET r == process_single_image(s, current_image_path)
             IN  IF r.ok
                 THEN on_single_image_processed(r.s, current_image_path, r.annotations)
                 ELSE [r.s EXCEPT !.failed = Append(@, current_image_path),
                                  !.process_idx = @ + 1, !.timers = @ + 1]

\* YOLOAnnotationTool.start_processing
start_processing(s) ==
    IF ~HasProject(s) \/ ~is_ready(s.project) THEN s
    ELSE [set_widgets_enabled(s, FALSE) EXCEPT
            !.process_idx = s.project.last_processed_index, !.timers = @ + 1]

\* YOLOAnnotationTool.new_project, with every dialog answered
new_project(s, save_first, project_name, class_names) ==
    LET s0 == IF HasProject(s) /\ save_first THEN save_project(s) ELSE s
        p0 == ProjectInit(project_name, ProjectFile, CHOOSE r \in RandomDraws : TRUE)
        p == [p0 EXCEPT !.class_names = class_names,
                        !.class_colors = generate_distinct_colors(Len(class_names),
                                             CHOOSE r \in RandomDraws : TRUE)]
        s1 == update_image_list(
                  [s0 EXCEPT !.project = p, !.process_idx = p.last_processed_index,
                             !.image_idx = -1]).s
        s2 == [s1 EXCEPT !.editor = set_class_info(set_annotations(set_image(@, NoImage), <<>>),
                                                   p.class_names, p.class_colors)]
    IN  set_widgets_enabled(s2, TRUE)

\* YOLOAnnotationTool.open_project, with every dialog answered
open_project(s, save_first, file) ==
    LET s0 == IF HasProject(s) /\ save_first THEN save_project(s) ELSE s
        p0 == ProjectInit("", "", CHOOSE r \in RandomDraws : TRUE)
        \* the file is read after the save: the project file holds what was saved
        content == IF file.name = ProjectFile THEN s0.disk ELSE file.content
        r == ProjectLoad(p0, file.name, content, OidsOf(s0.editor.annotations),
                         CHOOSE d \in RandomDraws : TRUE)
    IN  IF r.ok
        THEN LET p == r.project
                 u == update_image_list(
                         [s0 EXCEPT !.project = p, !.process_idx = p.last_processed_index,
                                    !.image_idx = p.last_processed_index])
                 s1 == [u.s EXCEPT !.editor =
                           set_class_info(set_annotations(set_image(@, NoImage), <<>>),
                                          p.class_names, p.class_colors)]
                 s2 == set_widgets_enabled(s1, TRUE)
             IN  IF ~u.ok THEN u.s
                 ELSE IF 0 <= s2.image_idx /\ s2.image_idx < Len(p.image_paths)
                 THEN update_nav_buttons(show_current_image(s2))
                 ELSE s2
        ELSE set_widgets_enabled([s0 EXCEPT !.project = NoProject], FALSE)

\* YOLOAnnotationTool.select_image_dir, with a directory chosen
select_image_dir(s, dir_path) ==
    IF ~HasProject(s) THEN s
    ELSE LET u == update_image_list(
                     [s EXCEPT !.project.image_dir = dir_path,
                               !.project.image_paths = ListImages(dir_path)])
         IN  IF ~u.ok THEN u.s
             ELSE save_project(check_process_ready(u.s))

\* YOLOAnnotationTool.select_model_file, with a file chosen
select_model_file(s, file_path) ==
    IF ~HasProject(s) THEN s
    ELSE save_project(check_process_ready([s EXCEPT !.project.model_path = file_path]))

\* YOLOAnnotationTool.on_image_double_clicked
on_image_double_clicked(s, image_path) ==
    IF ~HasProject(s) \/ image_path \notin Range(s.project.image_paths) THEN s
    ELSE update_nav_buttons(show_current_image(
            [s EXCEPT !.image_idx = IndexOf(s.project.image_paths, image_path, 1) - 1]))

\* YOLOAnnotationTool.next_image
next_image(s) ==
    IF HasProject(s) /\ s.image_idx < Len(s.project.image_paths) - 1
    THEN update_nav_buttons(show_current_image([s EXCEPT !.image_idx = @ + 1]))
    ELSE s

\* YOLOAnnotationTool.prev_image
prev_image(s) ==
    IF HasProject(s) /\ s.image_idx > 0
    THEN update_nav_buttons(show_current_image([s EXCEPT !.image_idx = @ - 1]))
    ELSE s

\* YOLOAnnotationTool.complete_annotation
complete_annotation(s) ==
    IF ~HasProject(s) \/ s.image_idx < 0 \/ s.image_idx >= Len(s.project.image_paths) THEN s
    ELSE IF s.image_idx < Len(s.project.image_paths) - 1
         THEN update_nav_buttons(show_current_image([s EXCEPT !.image_idx = @ + 1]))
         ELSE update_nav_buttons(s)


\* item assignments annot["class"] = label, annot["class_id"] = id on the dict oid
SetClass(anns, oid, label, id, set_id) ==
    [i \in DOMAIN anns |->
        IF anns[i].oid = oid
        THEN [anns[i] EXCEPT !.class = label, !.class_id = IF set_id THEN id ELSE @]
        ELSE anns[i]]

SetClassInProject(p, oid, label, id, set_id) ==
    IF p = NoProject THEN p
    ELSE [p EXCEPT !.processed_images =
            [q \in DOMAIN @ |-> [@[q] EXCEPT !.anns = SetClass(@, oid, label, id, set_id)]]]

\* ImageEditor.mousePressEvent
mousePressEvent(s, pos) ==
    IF s.editor.image = NoImage \/ Len(s.editor.annotations) = 0 THEN s
    ELSE LET i == FirstHit(s.editor.annotations, pos, view, 1)
         IN  IF i = 0
             THEN [s EXCEPT !.editor.current_box_idx = -1, !.editor.drag_handle = NoHandle]
             ELSE [s EXCEPT !.editor.current_box_idx = i - 1,
                            !.editor.drag_handle = HitHandle(s.editor.annotations[i].box, pos, view),
                            !.editor.last_pos = pos,
                            !.editor.dragging = TRUE]

\* the guard of ImageEditor.mouseMoveEvent
CanDrag(ed) ==
    ed.dragging /\ ed.current_box_idx >= 0 /\ ed.current_box_idx < Len(ed.annotations)

\* ImageEditor.mouseMoveEvent
mouseMoveEvent(s, pos) ==
    IF ~CanDrag(s.editor) THEN s
    ELSE LET ed == s.editor
             annot == ed.annotations[ed.current_box_idx + 1]
             box == DragBox(annot.box, ed.drag_handle, pos, ed.last_pos, view, ed.image)
         IN  [s EXCEPT !.editor.annotations = SetBox(@, annot.oid, box),
                       !.project = SetBoxInProject(@, annot.oid, box),
                       !.editor.last_pos = pos,
                       !.editor.during_drag_operation = TRUE]

\* ImageEditor.mouseReleaseEvent
mouseReleaseEvent(s) ==
    LET s1 == [s EXCEPT !.editor.dragging = FALSE]
    IN  IF s1.editor.during_drag_operation
        THEN LET s2 == [s1 EXCEPT !.editor.during_drag_operation = FALSE]
             IN  on_annotation_updated(s2, s2.editor.annotations)
        ELSE s1

\* delete_annotation leaving the selection index as it was
delete_annotation_keep_selection(s) ==
    LET s1 == [s EXCEPT !.editor.annotations = RemoveAt(@, s.editor.current_box_idx + 1)]
    IN  on_annotation_updated(s1, s1.editor.annotations)

\* ImageEditor.delete_annotation
delete_annotation(s) ==
    LET s1 == [s EXCEPT !.editor.annotations = RemoveAt(@, s.editor.current_box_idx + 1),
                        !.editor.current_box_idx = -1]
    IN  on_annotation_updated(s1, s1.editor.annotations)

\* ImageEditor.modify_annotation_label, with a label picked in the dialog
modify_annotation_label(s, label) ==
    LET ed == s.editor
        oid == ed.annotations[ed.current_box_idx + 1].oid
        known == label \in Range(ed.class_names)
        id == IndexOf(ed.class_names, label, 1) - 1
        s1 == [s EXCEPT !.editor.annotations = SetClass(@, oid, label, id, known),
                        !.project = SetClassInProject(@, oid, label, id, known)]
    IN  on_annotation_updated(s1, s1.editor.annotations)

-----------------------------------------------------------------------------
(* dialogs.py: DatasetSplitDialog, and the export of ui.py *)

\* IEEE-754 double arithmetic on quantities near a whole number of hundredths.
\* The pair <<P, E>> stands for the double P / 100 - E / (100 * 2^59); RoundDouble
\* gives the double nearest (ties to even) to the real number <<P, E>> stands for.
\* With ulp 2^(w - 59) at that number, the remainder of P * 2^59 - E modulo
\* 100 * 2^w is what rounding takes away; it is computed from P mod 100 and
\* 2^k mod 100, so no number here is larger than a few millions.
RoundDouble(x) ==
    LET P == x[1]
        E == x[2]
        RECURSIVE Pow2Mod(_)
        Pow2Mod(k) == IF k = 0 THEN 1 ELSE (2 * Pow2Mod(k - 1)) % 100
        w0 == CHOOSE w \in 0..20 : 100 * 2^w <= 128 * P /\ 128 * P < 100 * 2^(w + 1)
        w == IF 100 * 2^w0 = 128 * P /\ E > 0 THEN w0 - 1 ELSE w0
        D == 100 * 2^w
        rem == (2^w * (((P % 100) * Pow2Mod(59 - w)) % 100) - E) % D
        rem2 == (2^(w + 1) * (((P % 100) * Pow2Mod(58 - w)) % 100) - E) % (2 * D)
        odd == (rem2 - rem) % (2 * D) = D
        r == IF 2 * rem < D THEN rem
             ELSE IF 2 * rem > D THEN rem - D
             ELSE IF odd THEN rem - D ELSE rem
    IN  IF P = 0 THEN <<0, 0>> ELSE <<P, E + r>>

\* Rounding is symmetric in the sign: the double nearest to a negative number is
\* the opposite of the double nearest to its opposite.
\* q is x with its sign, m the double nearest to the magnitude of x.
RoundSigned(x) ==
    CHOOSE r \in UNION { { <<q[3] * m[1], q[3] * m[2]>> :
                              m \in { RoundDouble(<<q[3] * q[1], q[3] * q[2]>>) } } :
                          q \in { <<y[1], y[2], IF y[1] < 0 THEN -1 ELSE 1>> : y \in {x} } } : TRUE

\* DatasetSplitDialog.get_ratios on the three texts: ok is FALSE where it returns None.
\* get_ratios without the test of the sum
get_ratios_unchecked(texts) ==
    IF \E i \in 1..3 : ~texts[i].num THEN [ok |-> FALSE, ratios |-> <<>>]
    ELSE [ok |-> TRUE, ratios |-> [i \in 1..3 |-> RoundSigned(<<texts[i].pct, 0>>)]]

\* Of a text typed into a ratio field, num is whether float() parses it and pct the
\* whole number it names.
get_ratios(texts) ==
    IF \E i \in 1..3 : ~texts[i].num THEN [ok |-> FALSE, ratios |-> <<>>]
    ELSE
    LET train == RoundSigned(<<texts[1].pct, 0>>)
        val == RoundSigned(<<texts[2].pct, 0>>)
        test == RoundSigned(<<texts[3].pct, 0>>)
        tv == RoundSigned(<<train[1] + val[1], train[2] + val[2]>>)
        sum == RoundSigned(<<tv[1] + test[1], tv[2] + test[2]>>)
        Le(a, b) == a[1] < b[1] \/ (a[1] = b[1] /\ a[2] >= b[2])
    IN  IF Le(RoundDouble(<<99, 0>>), sum) /\ Le(sum, RoundDouble(<<101, 0>>))
        THEN [ok |-> TRUE, ratios |-> <<train, val, test>>]
        ELSE [ok |-> FALSE, ratios |-> <<>>]

\* export_all_results, lines 1256-1265: the sizes of the train, val and test slices
\* of total_labeled images; int(total_labeled * ratio) is done in doubles
split_counts(total_labeled, ratios) ==
    LET IntOfProduct(n, a) ==
            IF n = 0 \/ a[1] = 0 THEN 0
            ELSE LET y == RoundDouble(<<n * a[1], n * a[2]>>)
                 IN  IF y[1] % 100 = 0 /\ y[2] > 0 THEN (y[1] \div 100) - 1 ELSE y[1] \div 100
        train_count == IntOfProduct(total_labeled, ratios[1])
        val_count == IntOfProduct(total_labeled, ratios[2])
        train_end == Min(train_count, total_labeled)
        val_end == Min(train_count + val_count, total_labeled)
    IN  [train |-> train_end, val |-> val_end - train_end, test |-> total_labeled - val_end]

\* export_annotation_file leaving no file for an image whose annotation list is empty
export_annotation_file_nonempty(s, image_path, label_dir, fails) ==
    LET annotations == IF HasProject(s) /\ image_path \in DOMAIN s.project.processed_images
                       THEN s.project.processed_images[image_path].anns ELSE <<>>
        ok == Len(annotations) > 0 /\ ~fails
    IN  [s |-> s, ok |-> ok,
         files |-> IF ok THEN {[kind |-> "label", dir |-> label_dir, of |-> image_path,
                                lines |-> [i \in DOMAIN annotations |-> annotations[i].class]]}
                   ELSE {}]

\* YOLOAnnotationTool.export_annotation_file into the labels directory of the split
\* label_dir; fails is whether opening the label file raises.  files are the files it
\* leaves, a line being class id, centre, width and height in millionths.
export_annotation_file(s, image_path, label_dir, fails) ==
    IF ~HasProject(s) \/ image_path \notin DOMAIN s.project.processed_images
    THEN [s |-> s, files |-> {}, ok |-> FALSE]
    ELSE
    LET rec == s.project.processed_images[image_path]
        annotations == rec.anns
        image == rec.image \/ Detect(image_path).readable
        s1 == IF Len(annotations) > 0 /\ ~rec.image /\ image
              THEN [s EXCEPT !.project.processed_images[image_path].image = TRUE] ELSE s
        width == Px(ImgW)
        height == Px(ImgH)
        class_names == s.project.class_names
        Clip(a) == LET b == a.box
                   IN  IF b[1] < 0 \/ b[2] < 0 \/ b[3] > width \/ b[4] > height
                       THEN <<Max(0, b[1]), Max(0, b[2]), Min(width, b[3]), Min(height, b[4])>>
                       ELSE b
        Valid(a) == /\ Clip(a)[3] > Clip(a)[1] /\ Clip(a)[4] > Clip(a)[2]
                    /\ a.class \in Range(class_names)
        Micro(num, den) == (2 * num * 1000000 + den) \div (2 * den)
        Line(a) == LET b == Clip(a)
                   IN  [class_id |-> (CHOOSE i \in DOMAIN class_names :
                                         /\ class_names[i] = a.class
                                         /\ \A j \in DOMAIN class_names :
                                               class_names[j] = a.class => j <= i) - 1,
                        cx |-> Micro(b[1] + b[3], 2 * width),
                        cy |-> Micro(b[2] + b[4], 2 * height),
                        w |-> Micro(b[3] - b[1], width),
                        h |-> Micro(b[4] - b[2], height)]
        valid == SelectSeq(annotations, Valid)
        File(lines) == [kind |-> "label", dir |-> label_dir, of |-> image_path, lines |-> lines]
    IN  IF Len(annotations) = 0
        THEN IF fails THEN [s |-> s1, files |-> {}, ok |-> FALSE]
             ELSE [s |-> s1, files |-> {File(<<>>)}, ok |-> TRUE]
        ELSE IF ~image \/ fails \/ Len(valid) = 0
        THEN [s |-> s1, files |-> {}, ok |-> FALSE]
        ELSE [s |-> s1, files |-> {File([i \in DOMAIN valid |-> Line(valid[i])])}, ok |-> TRUE]

\* YOLOAnnotationTool.export_all_results.  accepted and texts are what the user does
\* with the DatasetSplitDialog, order is the permutation random.shuffle applies,
\* shutil.copy2 raises for the images of copy_fails and opening a label file raises
\* for those of label_fails.  written are the directories and files the call made.
export_all_results(s, accepted, texts, order, copy_fails, label_fails) ==
    LET Ended(outcome, s1, tasks, written) ==
            [s |-> [s1 EXCEPT !.output = @ \cup written], outcome |-> outcome,
             texts |-> texts, tasks |-> tasks, written |-> written,
             copy_fails |-> copy_fails, label_fails |-> label_fails]
        p == s.project
        IsLabeled(q) == has_annotations(p, q)
        IsUnlabeled(q) == ~has_annotations(p, q)
        \* has_annotations refreshes the cache for the paths it looks up
        p1 == [p EXCEPT !.labeled = @ \cup {q \in Range(p.image_paths) : IsLabeled(q)}]
        Label(task) == export_annotation_file([s EXCEPT !.project = p1], task.of, task.dir,
                                              task.of \in label_fails)
        dirs == {[kind |-> "dir", dir |-> d, of |-> k, lines |-> <<>>] :
                    d \in {"train", "val", "test"}, k \in {"images", "labels"}}
                \cup {[kind |-> "dir", dir |-> "unlabeled", of |-> "", lines |-> <<>>]}
        config == {[kind |-> k, dir |-> "labeled", of |-> "", lines |-> p.class_names] :
                      k \in {"classes", "yaml"}}
        \* the images in the order the two loops visit them, each with its directory
        Tasks(labeled_images, unlabeled_images, c) ==
            [i \in 1..(Len(labeled_images) + Len(unlabeled_images)) |->
                IF i <= Len(labeled_images)
                THEN [of |-> labeled_images[i],
                      dir |-> IF i <= c.train THEN "train"
                              ELSE IF i <= c.train + c.val THEN "val" ELSE "test"]
                ELSE [of |-> unlabeled_images[i - Len(labeled_images)], dir |-> "unlabeled"]]
        \* the first copy that raises ends the export in the handler's except branch
        Stop(tasks) ==
            IF \E i \in DOMAIN tasks : tasks[i].of \in copy_fails
            THEN CHOOSE i \in DOMAIN tasks :
                    /\ tasks[i].of \in copy_fails
                    /\ \A j \in 1..(i - 1) : tasks[j].of \notin copy_fails
            ELSE Len(tasks) + 1
        Copied(tasks, done) ==
            LET images == {[kind |-> "image", dir |-> task.dir, of |-> task.of, lines |-> <<>>] :
                              task \in done}
                labels == UNION {Label(task).files : task \in {k \in done : k.dir # "unlabeled"}}
                p2 == [p1 EXCEPT !.processed_images =
                          [q \in DOMAIN @ |->
                              IF \E task \in done : task.of = q /\ task.dir # "unlabeled"
                              THEN Label(CHOOSE task \in done : task.of = q)
                                       .s.project.processed_images[q]
                              ELSE @[q]]]
            IN  IF Cardinality(done) < Len(tasks)
                THEN Ended("aborted", [s EXCEPT !.project = p2], tasks,
                           dirs \cup images \cup labels)
                ELSE Ended("exported", [s EXCEPT !.project = p2], tasks,
                           dirs \cup images \cup labels \cup config)
        Split(tasks) == Copied(tasks, {tasks[i] : i \in 1..(Stop(tasks) - 1)})
        Export(labeled_images, r) ==
            IF ~r.ok THEN Ended("rejected", s, <<>>, {})
            ELSE Split(Tasks(labeled_images, SelectSeq(p.image_paths, IsUnlabeled),
                             split_counts(Len(labeled_images), r.ratios)))
    IN  IF ~HasProject(s) THEN Ended("no project", s, <<>>, {})
        ELSE IF DOMAIN s.project.processed_images = {} THEN Ended("nothing processed", s, <<>>, {})
        ELSE IF s.project.output_dir = "" THEN Ended("no output dir", s, <<>>, {})
        ELSE IF ~accepted THEN Ended("cancelled", s, <<>>, {})
        ELSE Export(SelectSeq([i \in DOMAIN p.image_paths |-> p.image_paths[order[i]]], IsLabeled),
                    get_ratios(texts))

-----------------------------------------------------------------------------
(* annotation.py: class AnnotationThread.  The thread is a record t of its     *)
(* fields; pc is the line run() executes next, stop the line a caller of       *)
(* stop() executes next.  Every read and every write of running and paused is  *)
(* a step of its own: the interpreter may switch threads between any two.      *)

\* image_paths and class_names the thread is constructed with
ThreadPaths == ListImages(DirA)
ThreadClasses == <<"person", "car">>

\* AnnotationThread.__init__, the model loaded
ThreadInit ==
    [running |-> TRUE, paused |-> FALSE,
     pc |-> "created",      \* "created": start() has not been called
     i |-> 0,               \* enumerate's index
     result |-> <<>>,       \* image, annotations of line 48
     processed |-> <<>>,    \* history: the paths process_image was called with
     emitted |-> <<>>,      \* history: the image_processed events
     progress |-> <<>>,     \* history: the progress_updated events
     finished |-> 0,        \* history: the finished events
     stop |-> "none",       \* "none": stop() has not been called
     late |-> 0,            \* history: calls of process_image since the last request to pause or stop
     slept |-> FALSE,       \* history: run() has slept at line 41
     found |-> "none"]      \* history: where stop() found run()

\* AnnotationThread.process_image
process_image(image_path) ==
    LET d == Detect(image_path)
        Kept(box) == model_names[box.cls + 1] \in Range(ThreadClasses)
        kept == SelectSeq(d.boxes, Kept)
    IN  IF ~d.readable \/ d.raises THEN [image |-> NoImage, annotations |-> <<>>]
        ELSE [image |-> TheImage,
              annotations |-> [k \in DOMAIN kept |->
                  [box |-> kept[k].xyxy, confidence |-> kept[k].conf,
                   class_id |-> kept[k].cls, class |-> model_names[kept[k].cls + 1]]]]

\* the lines of run() where the loop waits for resume() or stop()
PauseLoop == {"40 paused", "40 running", "41"}

\* run() whose line 40 is an if: one sleep, then the image is processed
run_sleep_once(t) ==
    IF t.pc = "35" THEN [t EXCEPT !.pc = IF t.i < Len(ThreadPaths) THEN "37" ELSE "60"]
    ELSE IF t.pc = "37" THEN [t EXCEPT !.pc = IF ~t.running THEN "60" ELSE "40 paused"]
    ELSE IF t.pc = "40 paused" THEN [t EXCEPT !.pc = IF t.paused THEN "40 running" ELSE "43"]
    ELSE IF t.pc = "40 running" THEN [t EXCEPT !.pc = IF t.running THEN "41" ELSE "43"]
    ELSE IF t.pc = "41" THEN [t EXCEPT !.slept = TRUE, !.pc = "43"]
    ELSE IF t.pc = "43" THEN [t EXCEPT !.pc = IF ~t.running THEN "60" ELSE "48"]
    ELSE IF t.pc = "48"
    THEN [t EXCEPT !.result = process_image(ThreadPaths[t.i + 1]),
                   !.processed = Append(@, ThreadPaths[t.i + 1]),
                   !.late = @ + 1, !.pc = "51"]
    ELSE IF t.pc = "51"
    THEN [t EXCEPT !.emitted = Append(@, [image_path |-> ThreadPaths[t.i + 1],
                                          image |-> t.result.image,
                                          annotations |-> t.result.annotations]),
                   !.pc = "57"]
    ELSE IF t.pc = "57"
    THEN [t EXCEPT !.progress = Append(@, ((t.i + 1) * 100) \div Len(ThreadPaths)),
                   !.i = @ + 1, !.result = <<>>, !.pc = "35"]
    ELSE IF t.pc = "60" THEN [t EXCEPT !.finished = @ + 1, !.pc = "done"]
    ELSE t

\* run() without the check of lines 43-44
run_unchecked(t) ==
    IF t.pc = "35" THEN [t EXCEPT !.pc = IF t.i < Len(ThreadPaths) THEN "37" ELSE "60"]
    ELSE IF t.pc = "37" THEN [t EXCEPT !.pc = IF ~t.running THEN "60" ELSE "40 paused"]
    ELSE IF t.pc = "40 paused" THEN [t EXCEPT !.pc = IF t.paused THEN "40 running" ELSE "43"]
    ELSE IF t.pc = "40 running" THEN [t EXCEPT !.pc = IF t.running THEN "41" ELSE "43"]
    ELSE IF t.pc = "41" THEN [t EXCEPT !.slept = TRUE, !.pc = "40 paused"]
    ELSE IF t.pc = "43" THEN [t EXCEPT !.pc = "48"]
    ELSE IF t.pc = "48"
    THEN [t EXCEPT !.result = process_image(ThreadPaths[t.i + 1]),
                   !.processed = Append(@, ThreadPaths[t.i + 1]),
                   !.late = @ + 1, !.pc = "51"]
    ELSE IF t.pc = "51"
    THEN [t EXCEPT !.emitted = Append(@, [image_path |-> ThreadPaths[t.i + 1],
                                          image |-> t.result.image,
                                          annotations |-> t.result.annotations]),
                   !.pc = "57"]
    ELSE IF t.pc = "57"
    THEN [t EXCEPT !.progress = Append(@, ((t.i + 1) * 100) \div Len(ThreadPaths)),
                   !.i = @ + 1, !.result = <<>>, !.pc = "35"]
    ELSE IF t.pc = "60" THEN [t EXCEPT !.finished = @ + 1, !.pc = "done"]
    ELSE t

\* AnnotationThread.run: the step at line pc.  "35" is the for statement taking the
\* next path, "40 paused" and "40 running" are the two reads of the while condition,
\* "57" stands for lines 57-58; process_image catches every exception itself.
run(t) ==
    IF t.pc = "35" THEN [t EXCEPT !.pc = IF t.i < Len(ThreadPaths) THEN "37" ELSE "60"]
    ELSE IF t.pc = "37" THEN [t EXCEPT !.pc = IF ~t.running THEN "60" ELSE "40 paused"]
    ELSE IF t.pc = "40 paused" THEN [t EXCEPT !.pc = IF t.paused THEN "40 running" ELSE "43"]
    ELSE IF t.pc = "40 running" THEN [t EXCEPT !.pc = IF t.running THEN "41" ELSE "43"]
    ELSE IF t.pc = "41" THEN [t EXCEPT !.slept = TRUE, !.pc = "40 paused"]
    ELSE IF t.pc = "43" THEN [t EXCEPT !.pc = IF ~t.running THEN "60" ELSE "48"]
    ELSE IF t.pc = "48"
    THEN [t EXCEPT !.result = process_image(ThreadPaths[t.i + 1]),
                   !.processed = Append(@, ThreadPaths[t.i + 1]),
                   !.late = @ + 1, !.pc = "51"]
    ELSE IF t.pc = "51"
    THEN [t EXCEPT !.emitted = Append(@, [image_path |-> ThreadPaths[t.i + 1],
                                          image |-> t.result.image,
                                          annotations |-> t.result.annotations]),
                   !.pc = "57"]
    ELSE IF t.pc = "57"
    THEN [t EXCEPT !.progress = Append(@, ((t.i + 1) * 100) \div Len(ThreadPaths)),
                   !.i = @ + 1, !.result = <<>>, !.pc = "35"]
    ELSE IF t.pc = "60" THEN [t EXCEPT !.finished = @ + 1, !.pc = "done"]
    ELSE t

\* AnnotationThread.pause
pause(t) == [t EXCEPT !.paused = TRUE, !.late = IF t.paused THEN @ ELSE 0]

\* AnnotationThread.resume
resume(t) == [t EXCEPT !.paused = FALSE]

\* AnnotationThread.stop: the step at line t.stop.  wait() returns when run() has
\* returned, and at once for a thread that was never started.
stop(t) ==
    IF t.stop = "none"
    THEN [t EXCEPT !.running = FALSE, !.stop = "107", !.late = 0, !.found = t.pc]
    ELSE IF t.stop = "107" THEN [t EXCEPT !.paused = FALSE, !.stop = "108"]
    ELSE IF t.stop = "108" /\ t.pc \in {"created", "done"} THEN [t EXCEPT !.stop = "returned"]
    ELSE t

-----------------------------------------------------------------------------
(* The state machine *)

\* what lastOp records of a handler that left the window in state s
Done(op, res, idx, s) ==
    [op |-> op, res |-> res, idx |-> idx, calls |-> s.calls, saves |-> s.saves]

\* the window's fields take the values of s
Assign(s, op, res, idx) ==
    /\ current_project' = s.project
    /\ current_image_idx' = s.image_idx
    /\ current_process_idx' = s.process_idx
    /\ model' = s.model
    /\ timers' = s.timers
    /\ disk' = s.disk
    /\ image_editor' = s.editor
    /\ widgets' = s.widgets
    /\ output' = s.output
    /\ class_dialog' = s.dialog
    /\ view' = view
    /\ annotation_thread' = annotation_thread
    /\ lastOp' = Done(op, res, idx, s)

\* a handler of the main window ran and left the window as s: while a modal dialog
\* is open the main window takes no input
Commit(s, op, res, idx) ==
    /\ ~class_dialog.open
    /\ Assign(s, op, res, idx)

\* no ClassManagementDialog is open
NoDialog == [open |-> FALSE, class_names |-> <<>>, class_colors |-> <<>>]

NoWidgets ==
    [config |-> FALSE, process_btn |-> FALSE, prev_btn |-> FALSE, next_btn |-> FALSE,
     complete_btn |-> FALSE, image_list |-> <<>>, selected |-> NoSelection]

\* the project file as the open dialog offers it
SavedFile == [name |-> ProjectFile, content |-> disk]

\* files that Project.load cannot load
BadFiles ==
    { [name |-> "missing.yap", content |-> NoFile],
      [name |-> "locked.yap", content |-> [kind |-> "unreadable"]],
      [name |-> "garbage.yap", content |-> [kind |-> "notjson"]],
      [name |-> "list.yap", content |-> [kind |-> "json", isdict |-> FALSE]],
      [name |-> "badanns.yap",
       content |-> [kind |-> "json", isdict |-> TRUE, annsdict |-> FALSE,
                    data |-> [name |-> "bad", class_names |-> <<"cat">>]]] }

\* the files a user can pick in the open dialog
OpenFiles == {SavedFile} \cup BadFiles

\* the pointer positions of the main-window model, in display pixels
AppPointers == { <<15, 15>> }
AppView == [zoom |-> Unit, off_x |-> 3, off_y |-> 3]

\* the window after YOLOAnnotationTool.__init__
InitWindow ==
    [project |-> NoProject, image_idx |-> -1, process_idx |-> -1, model |-> "none",
     timers |-> 0, disk |-> NoFile, editor |-> EditorInit, widgets |-> NoWidgets,
     output |-> {}, dialog |-> NoDialog,
     calls |-> <<>>, failed |-> <<>>, saves |-> 0]

\* the variables hold the window s, seen through the display geometry v
StartAt(s, v) ==
    /\ current_project = s.project
    /\ current_image_idx = s.image_idx
    /\ current_process_idx = s.process_idx
    /\ model = s.model
    /\ timers = s.timers
    /\ disk = s.disk
    /\ image_editor = s.editor
    /\ widgets = s.widgets
    /\ output = s.output
    /\ class_dialog = s.dialog
    /\ view = v
    /\ annotation_thread = ThreadInit
    /\ lastOp = [op |-> "init", res |-> "", idx |-> -1, calls |-> <<>>, saves |-> 0]

\* the state after YOLOAnnotationTool.__init__
Init == StartAt(InitWindow, AppView)

NewProject ==
    \E save_first \in BOOLEAN, name \in ProjectNames, class_names \in ClassInputs :
        Commit(new_project(Window, save_first, name, class_names), "new_project", "", -1)

OpenProject(files) ==
    \E save_first \in BOOLEAN, file \in files :
        LET s == open_project(Window, save_first, file)
        IN  Commit(s, "open_project", IF HasProject(s) THEN "ok" ELSE "failed", -1)

SaveProject ==
    /\ current_project # NoProject
    /\ Commit(save_project(Window), "save_project", "", -1)

SelectImageDir(dirs) ==
    /\ widgets.config
    /\ \E dir \in dirs : Commit(select_image_dir(Window, dir), "select_image_dir", dir, -1)

SelectModelFile(files) ==
    /\ widgets.config
    /\ \E f \in files : Commit(select_model_file(Window, f), "select_model_file", f, -1)

\* the tool-bar action is never disabled; process_btn is one more way in.
\* limit bounds the callbacks pending at once.
StartProcessing(limit) ==
    /\ current_project # NoProject
    /\ is_ready(current_project)
    /\ timers < limit
    /\ Commit(start_processing(Window), "start_processing", "", current_project.last_processed_index)

\* what a tick of process_next_image did with the image at its index
TickResult(s0, s) ==
    IF s0.process_idx >= Len(s0.project.image_paths) THEN "finished"
    ELSE IF s0.project.image_paths[s0.process_idx + 1] \in DOMAIN s0.project.processed_images
         THEN "skipped"
    ELSE IF Len(s.failed) > 0 THEN "failed"
    ELSE "processed"

\* one pending timer fires; with no project the callback dies on its first line
Tick ==
    /\ timers > 0
    /\ LET s0 == [Window EXCEPT !.timers = @ - 1]
       IN  IF current_project = NoProject
           THEN Commit(s0, "tick", "crashed", current_process_idx)
           ELSE LET s == process_next_image(s0)
                IN  Commit(s, "tick", TickResult(s0, s), current_process_idx)

NextImage ==
    /\ widgets.next_btn
    /\ Commit(next_image(Window), "next_image", "", -1)

PrevImage ==
    /\ widgets.prev_btn
    /\ Commit(prev_image(Window), "prev_image", "", -1)

\* a double click makes the item current, then itemDoubleClicked is delivered
DoubleClick ==
    \E image_path \in Range(widgets.image_list) :
        Commit(on_image_double_clicked([Window EXCEPT !.widgets.selected = image_path], image_path),
               "double_click", image_path, -1)

CompleteAnnotation ==
    /\ widgets.complete_btn
    /\ Commit(complete_annotation(Window), "complete_annotation", "", -1)

MousePress(pointers) ==
    \E pos \in pointers :
        /\ image_editor.image # NoImage
        /\ Len(image_editor.annotations) > 0
        /\ Commit(mousePressEvent(Window, pos), "press", pos, -1)

MouseMove(pointers) ==
    \E pos \in pointers :
        /\ CanDrag(image_editor)
        /\ Commit(mouseMoveEvent(Window, pos), "move", image_editor.drag_handle, -1)

MouseRelease ==
    /\ image_editor.dragging
    /\ Commit(mouseReleaseEvent(Window), "release", "", -1)

\* keyPressEvent with the Delete key, or the context menu's delete entry
DeleteKey ==
    /\ image_editor.current_box_idx >= 0
    /\ Commit(delete_annotation(Window), "delete", "", -1)

\* the context menu's modify entry, with a label picked
ModifyLabel ==
    /\ image_editor.current_box_idx >= 0
    /\ image_editor.current_box_idx < Len(image_editor.annotations)
    /\ \E label \in Range(image_editor.class_names) :
          Commit(modify_annotation_label(Window, label), "modify", label, -1)

\* closeEvent answered Yes (save) or No, and the tool started again: the file stays.
\* lastOp.idx is the index the pending batch run had reached, -1 with no run pending.
CloseEvent(answers) ==
    /\ current_project # NoProject
    /\ \E save \in answers :
          LET s == IF save THEN save_project(Window) ELSE Window
              closed == [InitWindow EXCEPT !.disk = s.disk, !.output = s.output,
                                           !.calls = s.calls]
          IN  Commit(closed, "close", IF save THEN "saved" ELSE "",
                     IF timers > 0 THEN current_process_idx ELSE -1)

\* the export button or tool-bar action, into an output directory that is empty;
\* typed are the triples of texts the user may enter, faulty the sets of images
\* whose copy or label file the file system refuses, orders the permutations
\* random.shuffle may apply.  lastOp is only a record of the last step, so an export
\* right after another one would start from the same program state.
ExportAllResults(typed, faulty, orders) ==
    /\ output = {}
    /\ lastOp.op # "export_all_results"
    /\ current_project # NoProject
    /\ \E accepted \in BOOLEAN, texts \in typed, copy_fails \in faulty, label_fails \in faulty,
          order \in {o \in orders : DOMAIN o = DOMAIN current_project.image_paths} :
          LET r == export_all_results(Window, accepted, texts, order, copy_fails, label_fails)
          IN  Commit(r.s, "export_all_results", [r EXCEPT !.s = ""], -1)

Next ==
    \/ NewProject
    \/ OpenProject(OpenFiles)
    \/ SaveProject
    \/ SelectImageDir({DirA})
    \/ SelectModelFile({GoodModel})
    \/ StartProcessing(MaxTimers)
    \/ Tick
    \/ NextImage
    \/ PrevImage
    \/ DoubleClick
    \/ CompleteAnnotation
    \/ MousePress(AppPointers)
    \/ DeleteKey
    \/ CloseEvent(BOOLEAN)

Spec == Init /\ [][Next]_vars

\* C2: the labeled-paths cache is exactly the set of paths whose record has a
\* non-empty annotation list.
C2_LabeledCacheExact ==
    current_project # NoProject =>
        current_project.labeled =
            {q \in DOMAIN current_project.processed_images :
                Len(current_project.processed_images[q].anns) > 0}

\* C4: at most one chain of process_next_image callbacks is pending at any time.
C4_OneRunAtATime == timers <= 1

\* C6: a batch tick invokes the detector only on a path that has no record; a tick
\* that finds a record makes no detector call, advances the processing index by one
\* and schedules the next tick.
C6_NoDetectorCallOnRecordedPath ==
    [][ (lastOp'.op = "tick" /\ current_project # NoProject) =>
            /\ \A q \in Range(lastOp'.calls) :
                  q \notin DOMAIN current_project.processed_images
            /\ lastOp'.res = "skipped" =>
                  /\ lastOp'.calls = <<>>
                  /\ current_process_idx' = current_process_idx + 1
                  /\ timers' = timers ]_vars

\* a tick found a record for its image and skipped it
C6_SkippedTick == lastOp.op = "tick" /\ lastOp.res = "skipped"

C8_StartsAtSmallestUnprocessed ==
    lastOp.op = "start_processing" =>
        \A i \in 1..Len(current_project.image_paths) :
            LET image_path == current_project.image_paths[i]
            IN  (/\ i - 1 < current_process_idx
                 /\ Detect(image_path).readable /\ ~Detect(image_path).raises)
                    => image_path \in DOMAIN current_project.processed_images

-----------------------------------------------------------------------------
(* The editor on its own: one image on display, the pointer anywhere *)

\* a project with directory A and a model, its first image double-clicked
GeomWindow ==
    on_image_double_clicked(
        select_model_file(
            select_image_dir(
                new_project(InitWindow, FALSE, "demo", CHOOSE c \in ClassInputs : TRUE),
                DirA),
            GoodModel),
        "A/1.jpg")

GeomViews == [zoom : Zooms, off_x : Offsets, off_y : Offsets]

\* pointer positions: by the top-left corner (half a pixel into a doubled image),
\* in the middle, and on the bottom-right corner of a doubled image
GeomPointers == { <<4, 4>>, <<15, 15>>, <<27, 27>> }

InitGeom == \E v \in GeomViews : StartAt(GeomWindow, v)

NextGeom ==
    \/ MousePress(GeomPointers)
    \/ MouseMove(GeomPointers)
    \/ MouseRelease
    \/ ModifyLabel

SpecGeom == InitGeom /\ [][NextGeom]_vars

\* C1: after any sequence of mouseMoveEvent calls the dragged box satisfies
\* 0 <= x1 < x2 <= image_w and 0 <= y1 < y2 <= image_h (in stored coordinates).
C1_DraggedBoxInBounds ==
    lastOp.op = "move" =>
        \A i \in DOMAIN image_editor.annotations :
            LET box == image_editor.annotations[i].box
                image == image_editor.image
            IN  /\ 0 <= box[1] /\ box[1] < box[3] /\ box[3] <= Px(image[1])
                /\ 0 <= box[2] /\ box[2] < box[4] /\ box[4] <= Px(image[2])

-----------------------------------------------------------------------------
(* Image directories of different sizes *)

NextDirs ==
    \/ NewProject
    \/ OpenProject({SavedFile})
    \/ SaveProject
    \/ SelectImageDir(ImageDirs)
    \/ SelectModelFile({GoodModel})
    \/ StartProcessing(1)
    \/ Tick
    \/ NextImage
    \/ PrevImage

SpecDirs == Init /\ [][NextDirs]_vars

\* C3: last_processed_index is within [0, len(image_paths)].
C3_CursorInRange ==
    current_project # NoProject =>
        /\ 0 <= current_project.last_processed_index
        /\ current_project.last_processed_index <= Len(current_project.image_paths)

-----------------------------------------------------------------------------
(* A batch run that is interrupted by closing the tool, and resumed *)

\* a project with a directory and a model, nothing processed yet
ResumeWindow(dir) ==
    select_model_file(
        select_image_dir(
            new_project(InitWindow, FALSE, "demo", CHOOSE c \in ClassInputs : TRUE),
            dir),
        GoodModel)

InitResume == \E dir \in ImageDirs : StartAt(ResumeWindow(dir), AppView)

NextResume ==
    \/ StartProcessing(1)
    \/ Tick
    \/ CloseEvent(BOOLEAN)
    \/ OpenProject({SavedFile})

SpecResume == InitResume /\ [][NextResume]_vars

\* C5: when the tool is closed, with the project saved, while a batch run that has
\* handled k images is pending, the reopened project resumes at image index k:
\* open_project restores k as the processing index and as the cursor start_processing
\* starts from.
C5_ResumesAtK ==
    [][ (/\ lastOp.op = "close" /\ lastOp.res = "saved" /\ lastOp.idx >= 0
         /\ lastOp'.op = "open_project" /\ lastOp'.res = "ok")
        => /\ current_process_idx' = lastOp.idx
           /\ current_project'.last_processed_index = lastOp.idx ]_vars

-----------------------------------------------------------------------------
(* A Project object on its own: its fields are assigned, it is saved and loaded *)

\* the paths given records: one whose image file is there, one whose file is gone
StorePaths == {"A/1.jpg", GonePath}

\* annotation lists as a caller passes them: none, and one box with a fractional corner
StoreAnnotations ==
    { <<>>,
      << [box |-> <<1, 1, Px(3), Px(3)>>, confidence |-> 80, class_id |-> 0, class |-> "person"] >> }

\* the variables hold project p and file f; the window is as it was
StoreCommit(p, f, op, res) ==
    /\ current_project' = p
    /\ disk' = f
    /\ lastOp' = [op |-> op, res |-> res, idx |-> -1, calls |-> <<>>, saves |-> 0]
    /\ UNCHANGED <<current_image_idx, current_process_idx, model, timers,
                   image_editor, widgets, output, class_dialog, view, annotation_thread>>

\* Project("demo"), with the colours its constructor drew
InitStore ==
    \E rnd \in RandomDraws :
        StartAt([InitWindow EXCEPT !.project = ProjectInit("demo", "", rnd)], AppView)

\* image_dir and image_paths assigned, as select_image_dir assigns them
StoreSetImages ==
    \E dir \in ImageDirs :
        StoreCommit([current_project EXCEPT !.image_dir = dir, !.image_paths = ListImages(dir)],
                    disk, "set_images", dir)

StoreAdd ==
    \E image_path \in StorePaths, annotations \in StoreAnnotations :
        StoreCommit(add_image_annotation(current_project, image_path, TRUE,
                        WithOids(annotations, OidsOfProject(current_project))),
                    disk, "add", image_path)

StoreRemove ==
    \E image_path \in DOMAIN current_project.processed_images :
        StoreCommit(remove_image_annotation(current_project, image_path), disk, "remove", image_path)

\* Project.save() and Project.save(path), the file system behaving as one of faults
StoreSave(paths, faults) ==
    \E path \in paths, io \in faults :
        LET r == ProjectSave(current_project, path, disk, io)
        IN  StoreCommit(r.project, r.file, "save",
                        IF r.raised THEN "raised" ELSE IF r.ok THEN "ok" ELSE "failed")

\* Project.load(path) on the project at hand
StoreLoad ==
    \E file \in OpenFiles, rnd \in RandomDraws :
        LET r == ProjectLoad(current_project, file.name, file.content, {}, rnd)
        IN  StoreCommit(r.project, disk, "load", IF r.ok THEN "ok" ELSE "failed")

\* Project().load(path) of the saved file
StoreLoadFresh ==
    \E rnd \in RandomDraws :
        LET r == ProjectLoad(ProjectInit("", "", rnd), ProjectFile, disk, {}, rnd)
        IN  StoreCommit(r.project, disk, "load_fresh", IF r.ok THEN "ok" ELSE "failed")

NextStore ==
    \/ StoreSetImages
    \/ StoreAdd
    \/ StoreRemove
    \/ StoreSave({"", ProjectFile}, {"ok"})
    \/ StoreLoad
    \/ StoreLoadFresh

SpecStore == InitStore /\ [][NextStore]_vars

C10_FailedLoadLeavesProject ==
    [][ (lastOp'.op = "load" /\ lastOp'.res = "failed") => current_project' = current_project ]_vars

\* C30: after a load that returns True the records are those of the file's
\* annotations whose image file exists, and nothing else, and the labeled cache holds
\* exactly the paths whose loaded list is non-empty.
C30_LoadRebuildsCache ==
    [][ (lastOp'.op \in {"load", "load_fresh"} /\ lastOp'.res = "ok") =>
          LET saved == disk.data.annotations
              q == current_project'
          IN  /\ DOMAIN q.processed_images = {x \in DOMAIN saved : ImageFileExists(x)}
              /\ \A x \in DOMAIN q.processed_images :
                    /\ StripOids(q.processed_images[x].anns) = saved[x]
                    /\ ~q.processed_images[x].image
              /\ q.labeled = {x \in DOMAIN q.processed_images :
                                 Len(q.processed_images[x].anns) > 0} ]_vars

\* a project loaded a file that holds an empty list for an image that exists and a
\* list with a box for an image that is gone
C30_LoadedMixedFile ==
    /\ lastOp.op = "load" /\ lastOp.res = "ok"
    /\ GonePath \in DOMAIN disk.data.annotations
    /\ Len(disk.data.annotations[GonePath]) > 0
    /\ \E x \in DOMAIN current_project.processed_images :
          current_project.processed_images[x].anns = <<>>

\* C31: after a load that returns True no record is kept for a path whose image
\* file does not exist, and every path of the file whose image file exists has one.
C31_MissingImagesDropped ==
    [][ (lastOp'.op \in {"load", "load_fresh"} /\ lastOp'.res = "ok") =>
          /\ \A x \in DOMAIN current_project'.processed_images : ImageFileExists(x)
          /\ \A x \in DOMAIN disk.data.annotations :
                ImageFileExists(x) => x \in DOMAIN current_project'.processed_images ]_vars

\* a file that holds lists for an image that exists and for one that is gone was
\* loaded: only the first has a record
C31_LoadedWithoutGonePath ==
    /\ lastOp.op \in {"load", "load_fresh"} /\ lastOp.res = "ok"
    /\ DOMAIN disk.data.annotations = {"A/1.jpg", GonePath}
    /\ DOMAIN current_project.processed_images = {"A/1.jpg"}

-----------------------------------------------------------------------------
(* A Project object saved while the file system fails *)

NextIO ==
    \/ StoreSetImages
    \/ StoreAdd
    \/ StoreSave({"", ProjectFile, BareFile}, SaveFaults)

SpecIO == InitStore /\ [][NextIO]_vars

\* C11: Project.save never raises: every call returns True or False, and a save with
\* no path known and none supplied returns False and writes nothing.
C11_SaveNeverRaises ==
    [][ lastOp'.op = "save" =>
            /\ lastOp'.res \in {"ok", "failed"}
            /\ current_project'.path = "" => (lastOp'.res = "failed" /\ disk' = disk) ]_vars

\* C12: a save that fails leaves a file that held a loadable document holding a
\* loadable document.
C12_FailedSaveKeepsFile ==
    [][ LET Loadable(file) ==
                ProjectLoad(ProjectInit("", "", CHOOSE r \in RandomDraws : TRUE),
                            ProjectFile, file, {}, CHOOSE r \in RandomDraws : TRUE).ok
        IN  (lastOp'.op = "save" /\ lastOp'.res = "failed" /\ Loadable(disk))
                => Loadable(disk') ]_vars

-----------------------------------------------------------------------------
(* generate_distinct_colors on its own *)

\* generate_distinct_colors(n) is called; lastOp.res holds n and the colours returned
GenerateColors ==
    \E n \in 0..MaxClasses, a \in ColorDraw, b \in {d \in ColorDraw : d.sat = 13 /\ d.val = 16} :
        StoreCommit(current_project, disk, "generate_distinct_colors",
                    [n |-> n, colors |-> generate_distinct_colors(n, <<a, b>>)])

SpecColors == Init /\ [][GenerateColors]_vars

\* C19: generate_distinct_colors(n) returns exactly n RGB triples, every component an
\* integer in 0..255, and the empty sequence for n = 0.
C19_NTriplesInRange ==
    lastOp.op = "generate_distinct_colors" =>
        /\ Len(lastOp.res.colors) = lastOp.res.n
        /\ \A k \in DOMAIN lastOp.res.colors :
              /\ Len(lastOp.res.colors[k]) = 3
              /\ \A c \in 1..3 : lastOp.res.colors[k][c] \in 0..255

\* a call that took the random branch and returned colours that are not all alike
C19_RandomBranch ==
    /\ lastOp.op = "generate_distinct_colors"
    /\ lastOp.res.n > Len(base_colors)
    /\ lastOp.res.colors[1] # lastOp.res.colors[2]

\* C35: two calls of generate_distinct_colors with the same n return the same
\* colours.
C35_SameColorsForSameN ==
    [][ (/\ lastOp.op = "generate_distinct_colors"
         /\ lastOp'.op = "generate_distinct_colors"
         /\ lastOp'.res.n = lastOp.res.n)
        => lastOp'.res.colors = lastOp.res.colors ]_vars

-----------------------------------------------------------------------------
(* dialogs.py: the ClassManagementDialog that manage_classes runs.  Each    *)
(* button of the dialog is an action; current_row is the row of the table  *)
(* the user selected before pressing it, -1 with no row selected.           *)

\* YOLOAnnotationTool.manage_classes up to dialog.exec(): ClassManagementDialog.init_ui
ManageClasses ==
    /\ current_project # NoProject
    /\ \E rnd \in RandomDraws :
          LET class_names == current_project.class_names
              class_colors == current_project.class_colors
          IN  Commit([Window EXCEPT !.dialog =
                        [open |-> TRUE, class_names |-> class_names,
                         class_colors |-> IF Len(class_colors) # Len(class_names)
                                          THEN generate_distinct_colors(Len(class_names), rnd)
                                          ELSE class_colors]],
                     "manage_classes", "", -1)

\* ClassManagementDialog.add_class, with class_name typed into the input dialog
AddClass(typed) ==
    /\ class_dialog.open
    /\ \E class_name \in typed, rnd \in RandomDraws :
          IF class_name # "" /\ class_name \notin Range(class_dialog.class_names)
          THEN LET names == Append(class_dialog.class_names, class_name)
               IN  Assign([Window EXCEPT !.dialog.class_names = names,
                                         !.dialog.class_colors =
                                             generate_distinct_colors(Len(names), rnd)],
                          "add_class", class_name, -1)
          ELSE Assign(Window, "add_class", "", -1)

\* ClassManagementDialog.edit_class, with new_name typed into the input dialog
EditClass(rows, typed) ==
    /\ class_dialog.open
    /\ \E current_row \in rows, new_name \in typed :
          IF /\ 0 <= current_row /\ current_row < Len(class_dialog.class_names)
             /\ new_name # "" /\ new_name \notin Range(class_dialog.class_names)
          THEN Assign([Window EXCEPT !.dialog.class_names[current_row + 1] = new_name],
                      "edit_class", new_name, current_row)
          ELSE Assign(Window, "edit_class", "", current_row)

\* ClassManagementDialog.change_color, with a colour picked in the colour dialog
ChangeColor(rows, picked) ==
    /\ class_dialog.open
    /\ \E current_row \in rows, color \in picked :
          IF 0 <= current_row /\ current_row < Len(class_dialog.class_names)
          THEN Assign([Window EXCEPT !.dialog.class_colors[current_row + 1] = color],
                      "change_color", "", current_row)
          ELSE Assign(Window, "change_color", "", current_row)

\* remove_class that deletes the name and leaves the colours as they are
RemoveClassKeepColors(rows) ==
    /\ class_dialog.open
    /\ \E current_row \in rows :
          IF 0 <= current_row /\ current_row < Len(class_dialog.class_names)
          THEN Assign([Window EXCEPT !.dialog.class_names = RemoveAt(@, current_row + 1)],
                      "remove_class", "yes", current_row)
          ELSE Assign(Window, "remove_class", "", current_row)

\* ClassManagementDialog.remove_class, the confirmation answered Yes or No
RemoveClass(rows) ==
    /\ class_dialog.open
    /\ \E current_row \in rows, yes \in BOOLEAN, rnd \in RandomDraws :
          IF 0 <= current_row /\ current_row < Len(class_dialog.class_names) /\ yes
          THEN LET names == RemoveAt(class_dialog.class_names, current_row + 1)
               IN  Assign([Window EXCEPT !.dialog.class_names = names,
                                         !.dialog.class_colors =
                                             generate_distinct_colors(Len(names), rnd)],
                          "remove_class", "yes", current_row)
          ELSE Assign(Window, "remove_class", "", current_row)

\* ClassManagementDialog.auto_generate_colors
AutoGenerateColors ==
    /\ class_dialog.open
    /\ \E rnd \in RandomDraws :
          Assign([Window EXCEPT !.dialog.class_colors =
                      generate_distinct_colors(Len(class_dialog.class_names), rnd)],
                 "auto_generate_colors", "", -1)

\* YOLOAnnotationTool.manage_classes from dialog.exec() on: the dialog is closed with
\* OK (accepted) or Cancel
CloseClasses ==
    /\ class_dialog.open
    /\ \E accepted \in BOOLEAN :
          LET s == [Window EXCEPT !.dialog = NoDialog]
              new_classes == class_dialog.class_names
              new_colors == class_dialog.class_colors
          IN  IF accepted
              THEN Assign(save_project(
                            [s EXCEPT !.project.class_names = new_classes,
                                      !.project.class_colors = new_colors,
                                      !.editor = set_class_info(@, new_classes, new_colors)]),
                          "manage_classes", "accepted", -1)
              ELSE Assign(s, "manage_classes", "rejected", -1)

\* a project file of an earlier version of the tool, eight labels and one colour,
\* and a file that does not load
ClassFiles ==
    { CHOOSE f \in BadFiles : f.name = "badanns.yap",
      [name |-> "old.yap",
       content |-> [kind |-> "json", isdict |-> TRUE, annsdict |-> TRUE,
                    data |-> [name |-> "old",
                              class_names |-> <<"a", "b", "c", "d", "e", "f", "g", "h">>,
                              class_colors |-> << <<9, 9, 9>> >>]]] }

NextClasses ==
    \/ NewProject
    \/ OpenProject(ClassFiles)
    \/ ManageClasses
    \/ AddClass({"", "cat"})
    \/ EditClass({-1, 0}, {"dog"})
    \/ ChangeColor({-1, 1}, {<<1, 2, 3>>})
    \/ RemoveClass({-1, 0})
    \/ AutoGenerateColors
    \/ CloseClasses

SpecClasses == Init /\ [][NextClasses]_vars

\* C13: the project and the label-management dialog hold as many colours as names.
C13_ColorsMatchNames ==
    /\ current_project # NoProject =>
          Len(current_project.class_colors) = Len(current_project.class_names)
    /\ class_dialog.open => Len(class_dialog.class_colors) = Len(class_dialog.class_names)

\* the dialog, opened on a project loaded from a file with fewer colours than names,
\* has had a label removed and a label added
C13_NamesChanged ==
    /\ class_dialog.open
    /\ lastOp.op = "add_class" /\ lastOp.res # ""
    /\ current_project.name = "old"
    /\ Len(class_dialog.class_names) = Len(current_project.class_names)
    /\ class_dialog.class_names # current_project.class_names

-----------------------------------------------------------------------------
(* The sizes of the export's slices, for image counts a model of the window *)
(* cannot reach                                                             *)

\* the slices of n labeled images are sized, once, for percentages typed into the
\* DatasetSplitDialog that get_ratios accepts
SplitImages ==
    \E n \in 0..MaxLabeled,
       pcts \in { <<70, 15, 15>>, <<33, 33, 34>>, <<29, 56, 15>>, <<50, 25, 25>>,
                  <<80, 10, 10>>, <<100, 0, 0>>, <<58, 21, 21>>, <<60, 20, 21>> } :
        LET r == get_ratios([i \in 1..3 |-> [num |-> TRUE, pct |-> pcts[i]]])
        IN  /\ lastOp.op = "init"
            /\ r.ok
            /\ StoreCommit(current_project, disk, "split_counts",
                           [n |-> n, pcts |-> pcts, counts |-> split_counts(n, r.ratios)])

SpecSplit == Init /\ [][SplitImages]_vars

\* C15: n labeled images and accepted ratios (train, val, test) give floor(n * train)
\* images in train, floor(n * val) in val and the remaining ones in test.
C15_SplitSizes ==
    lastOp.op = "split_counts" =>
        LET n == lastOp.res.n
            train == (n * lastOp.res.pcts[1]) \div 100
            val == (n * lastOp.res.pcts[2]) \div 100
        IN  lastOp.res.counts = [train |-> train, val |-> val, test |-> n - train - val]

-----------------------------------------------------------------------------
(* A batch run over directory A, and the export of its results *)

\* a project with directory A and a model, and output_dir set as select_output_dir does
ExportWindow ==
    save_project([ResumeWindow(DirA) EXCEPT !.project.output_dir = "out"])

NextExport ==
    \/ StartProcessing(1)
    \/ Tick
    \/ ExportAllResults(
          { [i \in 1..3 |-> [num |-> TRUE, pct |-> pcts[i]]] :
               pcts \in {<<70, 15, 15>>, <<70, 15, 10>>, <<50, 50, 0>>, <<40, 30, 31>>, <<35, 33, 33>>} }
          \cup { <<[num |-> TRUE, pct |-> 70], [num |-> FALSE, pct |-> 0], [num |-> TRUE, pct |-> 30]>> },
          { {}, {"A/1.jpg"}, {"A/2.jpg"} },
          { <<1, 2, 3>>, <<3, 2, 1>> })

SpecExport == StartAt(ExportWindow, AppView) /\ [][NextExport]_vars

\* C14: export accepts a ratio triple only if the three percentages parse as numbers
\* and their sum is within 99..101 hundredths, 70/15/15 is accepted and 70/15/10 is
\* rejected, and a rejected export creates and writes nothing in the output directory.
C14_RatiosValidated ==
    [][ lastOp'.op = "export_all_results" =>
          LET texts == lastOp'.res.texts
              outcome == lastOp'.res.outcome
              sum == texts[1].pct + texts[2].pct + texts[3].pct
              Typed(a, b, c) == /\ \A i \in 1..3 : texts[i].num
                                /\ <<texts[1].pct, texts[2].pct, texts[3].pct>> = <<a, b, c>>
          IN  /\ outcome \in {"exported", "aborted"} =>
                    /\ \A i \in 1..3 : texts[i].num
                    /\ 99 <= sum /\ sum <= 101
              /\ Typed(70, 15, 15) => outcome # "rejected"
              /\ Typed(70, 15, 10) => outcome \notin {"exported", "aborted"}
              /\ outcome = "rejected" => output' = output /\ lastOp'.res.written = {} ]_vars

\* with records to export, 70/15/10 was rejected
C14_Rejected ==
    /\ lastOp.op = "export_all_results" /\ lastOp.res.outcome = "rejected"
    /\ \A i \in 1..3 : lastOp.res.texts[i].num
    /\ lastOp.res.texts[3].pct = 10

\* C16: in an export that reached its copy loops, every image whose own copy does
\* not fail is in the output directory, and the class list and the descriptor are
\* written, whichever single copy or label file failed.
C16_FailureSkipsOneImage ==
    [][ (lastOp'.op = "export_all_results" /\ lastOp'.res.outcome \in {"exported", "aborted"}) =>
          LET res == lastOp'.res
          IN  /\ \A i \in DOMAIN res.tasks :
                    res.tasks[i].of \notin res.copy_fails =>
                        [kind |-> "image", dir |-> res.tasks[i].dir, of |-> res.tasks[i].of,
                         lines |-> <<>>] \in output'
              /\ \E f \in output' : f.kind = "classes"
              /\ \E f \in output' : f.kind = "yaml" ]_vars

\* C17: after an export into an empty directory, an image copied into a split whose
\* annotation list is empty has an empty label file in that split unless its label
\* file could not be opened, and an image copied to unlabeled has no label file.
C17_EmptyLabelFiles ==
    [][ lastOp'.op = "export_all_results" =>
          \A f \in lastOp'.res.written :
              f.kind = "image" =>
                  LET known == f.of \in DOMAIN current_project'.processed_images
                      Labels(lines) == [kind |-> "label", dir |-> f.dir, of |-> f.of, lines |-> lines]
                  IN  /\ ( /\ f.dir # "unlabeled"
                           /\ known
                           /\ current_project'.processed_images[f.of].anns = <<>>
                           /\ f.of \notin lastOp'.res.label_fails )
                          => Labels(<<>>) \in output'
                      /\ f.dir = "unlabeled" =>
                            \A g \in output' : ~(g.kind = "label" /\ g.of = f.of) ]_vars

\* an export copied an image without annotations into a split, with an empty label
\* file, and another image to unlabeled
C17_EmptyListExported ==
    /\ lastOp.op = "export_all_results"
    /\ \E f, g \in output :
          /\ f.kind = "image" /\ f.dir # "unlabeled"
          /\ current_project.processed_images[f.of].anns = <<>>
          /\ [kind |-> "label", dir |-> f.dir, of |-> f.of, lines |-> <<>>] \in output
          /\ g.kind = "image" /\ g.dir = "unlabeled"

\* C18: a mouseMoveEvent during a drag changes only the editor: the project's
\* stored annotation records are what they were before the move.
C18_DragIsVisualOnly ==
    [][ lastOp'.op = "move" =>
          current_project'.processed_images = current_project.processed_images ]_vars

\* C20: after every step the editor's current_box_idx is -1 or an index into its
\* annotation list, and it is -1 after a step that deleted an annotation or that
\* left the editor with another image or another annotation list.
C20_SelectionValid ==
    [][ /\ \/ image_editor'.current_box_idx = -1
           \/ /\ 0 <= image_editor'.current_box_idx
              /\ image_editor'.current_box_idx < Len(image_editor'.annotations)
        /\ ( \/ lastOp'.op = "delete"
             \/ image_editor'.image # image_editor.image
             \/ image_editor'.annotations # image_editor.annotations )
            => image_editor'.current_box_idx = -1 ]_vars

\* the selected annotation was deleted with the Delete key
C20_SelectedDeleted ==
    /\ lastOp.op = "delete"
    /\ image_editor.image # NoImage
    /\ image_editor.current_box_idx = -1

\* C27: a mouseMoveEvent with a corner handle puts the dragged corner at the
\* pointer's image position and leaves the opposite corner where it was before the
\* move (hence where it was when the drag began).
C27_OppositeCornerFixed ==
    [][ (lastOp'.op = "move" /\ lastOp'.res \notin {"center", NoHandle}) =>
          LET i == image_editor.current_box_idx + 1
              old == image_editor.annotations[i].box
              new == image_editor'.annotations[i].box
              px == ((image_editor'.last_pos[1] - view.off_x) * Unit) \div view.zoom
              py == ((image_editor'.last_pos[2] - view.off_y) * Unit) \div view.zoom
              left == lastOp'.res \in {"top_left", "bottom_left"}
              top == lastOp'.res \in {"top_left", "top_right"}
          IN  /\ IF left THEN new[1] = px /\ new[3] = old[3]
                          ELSE new[3] = px /\ new[1] = old[1]
              /\ IF top THEN new[2] = py /\ new[4] = old[4]
                         ELSE new[4] = py /\ new[2] = old[2] ]_vars

\* C28: a mouseMoveEvent with the center handle moves both corners by the pointer's
\* delta in image space, so the box keeps its width and its height.
C28_CenterDragTranslates ==
    [][ (lastOp'.op = "move" /\ lastOp'.res = "center") =>
          LET i == image_editor.current_box_idx + 1
              old == image_editor.annotations[i].box
              new == image_editor'.annotations[i].box
              dx == ((image_editor'.last_pos[1] - image_editor.last_pos[1]) * Unit) \div view.zoom
              dy == ((image_editor'.last_pos[2] - image_editor.last_pos[2]) * Unit) \div view.zoom
          IN  /\ new = <<old[1] + dx, old[2] + dy, old[3] + dx, old[4] + dy>>
              /\ new[3] - new[1] = old[3] - old[1]
              /\ new[4] - new[2] = old[4] - old[2] ]_vars

-----------------------------------------------------------------------------
(* Presses on an image with two overlapping boxes *)

\* a project whose classes keep both detections of A/1.jpg, its image on display:
\* the box of the person covers the image, the box of the dog lies inside it
PressWindow ==
    on_image_double_clicked(
        select_model_file(
            select_image_dir(new_project(InitWindow, FALSE, "demo", <<"person", "dog">>), DirA),
            GoodModel),
        "A/1.jpg")

\* pointer positions on a grid that reaches beyond the displayed image
PressPointers == {0, 4, 10, 15, 20, 27, 38} \X {0, 4, 10, 15, 20, 27, 38}

SpecPress ==
    /\ \E v \in GeomViews : StartAt(PressWindow, v)
    /\ [][MousePress(PressPointers) \/ MouseRelease]_vars

\* C29: a press selects the first annotation of the list that the point hits, a box
\* being hit within control_size display pixels of a corner or else inside its body;
\* the handle is the corner when a corner is hit and the center otherwise; a press
\* that hits no box selects nothing.
C29_FirstHitSelected ==
    [][ lastOp'.op = "press" =>
          LET anns == image_editor.annotations
              pos == lastOp'.res
              X(c) == c * view.zoom + view.off_x * Unit
              Y(c) == c * view.zoom + view.off_y * Unit
              Near(a, b) == a - b <= control_size * Unit /\ b - a <= control_size * Unit
              Corner(i, cx, cy) == /\ Near(pos[1] * Unit, X(anns[i].box[cx]))
                                   /\ Near(pos[2] * Unit, Y(anns[i].box[cy]))
              AtCorner(i) == Corner(i, 1, 2) \/ Corner(i, 3, 2) \/ Corner(i, 1, 4) \/ Corner(i, 3, 4)
              Inside(i) == /\ X(anns[i].box[1]) <= pos[1] * Unit /\ pos[1] * Unit <= X(anns[i].box[3])
                           /\ Y(anns[i].box[2]) <= pos[2] * Unit /\ pos[2] * Unit <= Y(anns[i].box[4])
              sel == image_editor'.current_box_idx + 1
          IN  IF image_editor'.current_box_idx = -1
              THEN /\ image_editor'.drag_handle = NoHandle
                   /\ image_editor'.dragging = image_editor.dragging
                   /\ \A i \in DOMAIN anns : ~AtCorner(i) /\ ~Inside(i)
              ELSE /\ sel \in DOMAIN anns
                   /\ AtCorner(sel) \/ Inside(sel)
                   /\ \A i \in 1..(sel - 1) : ~AtCorner(i) /\ ~Inside(i)
                   /\ (image_editor'.drag_handle = "center") = ~AtCorner(sel)
                   /\ image_editor'.dragging
                   /\ image_editor'.last_pos = pos ]_vars

\* a press inside the first box, away from its corners, on a corner of the second
C29_OverlapPressed ==
    /\ lastOp.op = "press"
    /\ image_editor.current_box_idx = 0
    /\ image_editor.drag_handle = "center"
    /\ Len(image_editor.annotations) >= 2
    /\ HitHandle(image_editor.annotations[2].box, image_editor.last_pos, view)
          \notin {"center", NoHandle}
    /\ view.zoom = Unit

-----------------------------------------------------------------------------
(* The label taxonomy, typed into new_project and edited in the dialog *)

\* The lines of new_project that turn the text typed into the label prompt into
\* class_names.  The text is given by its fields, the pieces between its commas;
\* the text that is one empty field is the empty string.
parse_class_input(class_input) ==
    LET strip(field) == IF field = " cat" THEN "cat" ELSE IF field = " " THEN "" ELSE field
        stripped == [i \in DOMAIN class_input |-> strip(class_input[i])]
        Kept(cls) == cls # ""
    IN  IF class_input = <<"">> THEN <<"person", "car", "bike", "bus", "truck">>
        ELSE SelectSeq(stripped, Kept)

\* new_project with the label prompt answered by one of the texts typed
NewProjectTyped(typed) ==
    \E class_input \in typed :
        Commit(new_project(Window, FALSE, "demo", parse_class_input(class_input)),
               "new_project", class_input, -1)

NextTaxonomy ==
    \/ NewProjectTyped({ <<"">>, <<"dog", " ">>, <<"cat", " cat">> })
    \/ ManageClasses
    \/ AddClass({"", "cat", "dog"})
    \/ EditClass({-1, 0, 1}, {"", "cat", "dog"})
    \/ RemoveClass({-1, 0})
    \/ CloseClasses

SpecTaxonomy == Init /\ [][NextTaxonomy]_vars

\* C21: class_names never holds the same name twice, in the project and in the
\* dialog that edits it.
C21_NamesDistinct ==
    /\ current_project # NoProject =>
          \A i, j \in DOMAIN current_project.class_names :
              current_project.class_names[i] = current_project.class_names[j] => i = j
    /\ class_dialog.open =>
          \A i, j \in DOMAIN class_dialog.class_names :
              class_dialog.class_names[i] = class_dialog.class_names[j] => i = j

-----------------------------------------------------------------------------
(* The batch run: the resume cursor *)

\* C22: after the tick that handles the image at index i, processed, skipped or
\* failed, last_processed_index is i + 1.
C22_CursorIsNextIndex ==
    [][ (/\ lastOp'.op = "tick"
         /\ lastOp'.res \in {"processed", "skipped", "failed"})
        => current_project'.last_processed_index = lastOp'.idx + 1 ]_vars

-----------------------------------------------------------------------------
(* The batch run over a directory of eleven images, the tenth unreadable: *)
(* checkpoints and the end of the run                                     *)

InitBatch == \E dir \in {DirA, DirC} : StartAt(ResumeWindow(dir), AppView)

NextBatch ==
    \/ StartProcessing(1)
    \/ Tick
    \/ NextImage
    \/ PrevImage

SpecBatch == InitBatch /\ [][NextBatch]_vars

\* C23: the tick that handles the image at index i, processed, skipped or failed,
\* saves the project when i + 1 is a multiple of 10 and when the image is the last
\* of the list.
C23_CheckpointEveryTenth ==
    [][ (/\ lastOp'.op = "tick"
         /\ lastOp'.res \in {"processed", "skipped", "failed"}
         /\ \/ (lastOp'.idx + 1) % SaveEvery = 0
            \/ lastOp'.idx + 1 = Len(current_project.image_paths))
        => lastOp'.saves > 0 ]_vars

\* Tick can fire when a callback is pending and no modal dialog runs
TickEnabled == timers > 0 /\ ~class_dialog.open

\* what a tick may leave in lastOp
TickRecords ==
    [op : {"tick"}, res : {"finished", "skipped", "failed", "processed", "crashed"},
     idx : 0 .. Len(ListImages(DirC)),
     calls : {<<>>} \cup {<<q>> : q \in AllPaths}, saves : 0 .. 2]

\* a step of Tick, told by what it leaves in lastOp: every step of Tick changes
\* lastOp, and no other action leaves a tick there
TickFires == TickEnabled /\ lastOp' \in TickRecords

\* Every callback QTimer.singleShot has scheduled is run by the event loop: a
\* pending tick is not postponed for ever.
FairBatch == SpecBatch /\ WF_lastOp(TickFires)

\* C24: a batch run that was started reaches the end of the image list: a tick finds
\* the index at the end, saves the project, and leaves no callback pending.
C24_RunFinishes ==
    (lastOp.op = "start_processing" /\ timers > 0)
        ~> (/\ lastOp.op = "tick" /\ lastOp.res = "finished"
            /\ lastOp.saves > 0
            /\ timers = 0
            /\ widgets.process_btn)

\* the run over the eleven images has finished: ten have a record, the unreadable
\* tenth has none
C24_FinishedWithFailure ==
    /\ lastOp.op = "tick" /\ lastOp.res = "finished" /\ lastOp.saves > 0
    /\ current_project.image_dir = DirC
    /\ DOMAIN current_project.processed_images = Range(ListImages(DirC)) \ {"C/10.jpg"}

-----------------------------------------------------------------------------
(* An AnnotationThread over three images, and the thread that owns it calling *)
(* start(), pause(), resume() and stop()                                      *)

ThreadCommit(t) ==
    /\ annotation_thread' = t
    /\ UNCHANGED <<current_project, current_image_idx, current_process_idx, model, timers,
                   disk, image_editor, widgets, output, class_dialog, view, lastOp>>

\* the owner is not inside stop()
OwnerFree == annotation_thread.stop \in {"none", "returned"}

\* QThread.start(): run() begins, line 34
ThreadStart ==
    /\ OwnerFree
    /\ annotation_thread.pc = "created"
    /\ ThreadCommit([annotation_thread EXCEPT !.pc = "35"])

\* the worker thread executes the next line of run()
ThreadRun ==
    /\ annotation_thread.pc \notin {"created", "done"}
    /\ ThreadCommit(run(annotation_thread))

ThreadPause ==
    /\ OwnerFree
    /\ ThreadCommit(pause(annotation_thread))

ThreadResume ==
    /\ OwnerFree
    /\ ThreadCommit(resume(annotation_thread))

\* stop() is called: line 106
ThreadStop ==
    /\ annotation_thread.stop = "none"
    /\ ThreadCommit(stop(annotation_thread))

\* the caller of stop() goes on: line 107, and line 108 when wait() returns
ThreadStopping ==
    /\ annotation_thread.stop \in {"107", "108"}
    /\ stop(annotation_thread) # annotation_thread
    /\ ThreadCommit(stop(annotation_thread))

NextThread ==
    \/ ThreadStart
    \/ ThreadRun
    \/ ThreadPause
    \/ ThreadResume
    \/ ThreadStop
    \/ ThreadStopping

SpecThread == Init /\ [][NextThread]_vars

\* Both threads are scheduled: the worker is not kept from its next line for ever,
\* nor is the caller of stop() once it is inside stop().
FairThread == SpecThread /\ WF_vars(ThreadRun) /\ WF_vars(ThreadStopping)

\* the paths of a sequence of image_processed events
EmittedPaths(emitted) == [k \in DOMAIN emitted |-> emitted[k].image_path]

\* sequence a is an initial part of sequence b
IsPrefix(a, b) == Len(a) <= Len(b) /\ \A k \in DOMAIN a : a[k] = b[k]

\* C25: once stop() has set running to False, run() takes up no further image: an
\* image is processed after the request only if run() had passed the check of line 43
\* for it, and none if stop() found run() in the pause loop.  Each stop() returns,
\* with run() over, and no image_processed event follows its return.
C25_StopHonoured ==
    /\ [][ /\ (~annotation_thread.running /\ annotation_thread.pc # "48")
                => annotation_thread'.pc # "48"
           /\ annotation_thread.stop = "returned"
                => annotation_thread'.emitted = annotation_thread.emitted ]_vars
    /\ [](~annotation_thread.running =>
            annotation_thread.late <= IF annotation_thread.found = "48" THEN 1 ELSE 0)
    /\ (annotation_thread.stop # "none")
          ~> (/\ annotation_thread.stop = "returned"
              /\ annotation_thread.pc \in {"created", "done"}
              /\ annotation_thread.pc = "done" => annotation_thread.finished = 1)

\* stop() found run() asleep in the pause loop before the second image, and has
\* returned: one image was processed
C25_StoppedWhilePaused ==
    /\ annotation_thread.stop = "returned"
    /\ annotation_thread.found = "41"
    /\ annotation_thread.pc = "done"
    /\ annotation_thread.processed = <<ThreadPaths[1]>>
    /\ Len(annotation_thread.emitted) = 1

-----------------------------------------------------------------------------
(* The taxonomy is edited after the batch run, and the results are exported, *)
(* by export_all_results of the window and by export_single_result of        *)
(* annotation.py                                                             *)

\* annotation.export_single_result(project, image_path, image_editor, dest_dir): the
\* files it writes into dest_dir, which exists.  image.copy() raises for a record
\* whose image is None.  Every annotation gets a line; class_id stays 0 for a class
\* that is not in class_names.
export_single_result(p, image_path, dest_dir) ==
    IF p = NoProject \/ image_path \notin DOMAIN p.processed_images
    THEN [files |-> {}, raised |-> FALSE]
    ELSE IF dest_dir = "" /\ p.output_dir = "" THEN [files |-> {}, raised |-> FALSE]
    ELSE IF ~p.processed_images[image_path].image THEN [files |-> {}, raised |-> TRUE]
    ELSE
    LET dir == IF dest_dir = "" THEN p.output_dir ELSE dest_dir
        annotations == p.processed_images[image_path].anns
        width == Px(ImgW)
        height == Px(ImgH)
        Micro(num, den) == (2 * num * 1000000 + den) \div (2 * den)
        Index(class) == CHOOSE i \in DOMAIN p.class_names :
                            /\ p.class_names[i] = class
                            /\ \A j \in 1..(i - 1) : p.class_names[j] # class
        Line(a) == [class_id |-> IF a.class \in Range(p.class_names) THEN Index(a.class) - 1 ELSE 0,
                    cx |-> Micro(a.box[1] + a.box[3], 2 * width),
                    cy |-> Micro(a.box[2] + a.box[4], 2 * height),
                    w |-> Micro(a.box[3] - a.box[1], width),
                    h |-> Micro(a.box[4] - a.box[2], height)]
    IN  [files |-> { [kind |-> "annotated", dir |-> dir, of |-> image_path, lines |-> <<>>],
                     [kind |-> "label", dir |-> dir, of |-> image_path,
                      lines |-> [k \in DOMAIN annotations |-> Line(annotations[k])]] },
         raised |-> FALSE]

\* export_single_result is called for an image of the project
ExportSingleResult(dirs) ==
    /\ current_project # NoProject
    /\ \E image_path \in Range(current_project.image_paths), dest_dir \in dirs :
          LET r == export_single_result(current_project, image_path, dest_dir)
          IN  Commit([Window EXCEPT !.output = @ \cup r.files], "export_single_result",
                     [of |-> image_path, raised |-> r.raised], -1)

NextRelabel ==
    \/ StartProcessing(1)
    \/ Tick
    \/ ManageClasses
    \/ AddClass({"person"})
    \/ RemoveClass({0})
    \/ CloseClasses
    \/ ExportAllResults({ [i \in 1..3 |-> [num |-> TRUE, pct |-> <<70, 15, 15>>[i]]] },
                        { {} }, { <<1, 2, 3>>, <<3, 2, 1>> })
    \/ ExportSingleResult({""})

SpecRelabel == StartAt(ExportWindow, AppView) /\ [][NextRelabel]_vars

\* C32: every image an export has copied into the images directory of a split has
\* a label file in the labels directory of that split.
C32_CopiedImageHasLabelFile ==
    \A f \in output :
        (f.kind = "image" /\ f.dir # "unlabeled")
            => \E g \in output : g.kind = "label" /\ g.dir = f.dir /\ g.of = f.of

\* C33: the lines of a label file an export writes stand for annotations of the
\* image, in their order, and each carries as class id the index of the class name
\* of its annotation in class_names.
C33_ClassIdFromTaxonomy ==
    [][ lastOp'.op \in {"export_all_results", "export_single_result"} =>
          \A g \in output' \ output :
              g.kind = "label" =>
                  LET names == current_project'.class_names
                      anns == current_project'.processed_images[g.of].anns
                      \* the k-th smallest element of the set S of positions
                      RECURSIVE Nth(_, _)
                      Nth(S, k) == LET m == CHOOSE x \in S : \A y \in S : x <= y
                                   IN  IF k = 1 THEN m ELSE Nth(S \ {m}, k - 1)
                  IN  \E S \in SUBSET DOMAIN anns :
                        /\ Cardinality(S) = Len(g.lines)
                        /\ \A k \in DOMAIN g.lines :
                              /\ g.lines[k].class_id \in 0..(Len(names) - 1)
                              /\ names[g.lines[k].class_id + 1] = anns[Nth(S, k)].class ]_vars

-----------------------------------------------------------------------------
(* Inference: the batch run of the window, and an AnnotationThread running *)

NextDetect ==
    \/ NextBatch
    \/ ThreadStart
    \/ ThreadRun

SpecDetect == InitBatch /\ [][NextDetect]_vars

\* C34: the annotations a tick of the batch run stores for its image all have a
\* class of the project's class_names, a tick fails only for an image that cannot
\* be read or on which the detector raises, and the annotations an AnnotationThread
\* emits all have a class of its class_names.
C34_OnlyTaxonomyClasses ==
    /\ [][ lastOp'.op = "tick" =>
             LET image_path == current_project.image_paths[lastOp'.idx + 1]
             IN  /\ lastOp'.res = "processed" =>
                       /\ image_path \in DOMAIN current_project'.processed_images
                       /\ \A a \in Range(current_project'.processed_images[image_path].anns) :
                             a.class \in Range(current_project.class_names)
                 /\ lastOp'.res = "failed" =>
                       ~Detect(image_path).readable \/ Detect(image_path).raises ]_vars
    /\ [](\A e \in Range(annotation_thread.emitted) :
             \A a \in Range(e.annotations) : a.class \in Range(ThreadClasses))

\* the image on which the detector finds a person, a dog and a faint car was
\* processed by a tick with the taxonomy person, car, and emitted by the thread:
\* the person is kept
C34_DogDropped ==
    /\ lastOp.op = "tick" /\ lastOp.res = "processed"
    /\ current_project.image_paths[lastOp.idx + 1] = "A/1.jpg"
    /\ Len(current_project.processed_images["A/1.jpg"].anns) = 1
    /\ \E e \in Range(annotation_thread.emitted) :
          e.image_path = "A/1.jpg" /\ Len(e.annotations) > 0

-----------------------------------------------------------------------------
(* The slices of the export, for percentages of either sign *)

\* export_all_results, lines 1254-1265: the train, val and test lists cut from the
\* shuffled labeled_images.  int() truncates towards zero; a slice bound below zero
\* counts from the end of the list, and every bound is clamped to the list.
split_slices(labeled_images, ratios) ==
    LET n == Len(labeled_images)
        IntOfPositive(a) ==
            IF n = 0 \/ a[1] = 0 THEN 0
            ELSE LET y == RoundDouble(<<n * a[1], n * a[2]>>)
                 IN  IF y[1] % 100 = 0 /\ y[2] > 0 THEN (y[1] \div 100) - 1 ELSE y[1] \div 100
        IntOfProduct(a) == IF a[1] < 0 THEN -IntOfPositive(<<-a[1], -a[2]>>) ELSE IntOfPositive(a)
        Bound(k) == IF k < 0 THEN Max(k + n, 0) ELSE Min(k, n)
        Slice(lo, hi) == SubSeq(labeled_images, Bound(lo) + 1, Bound(hi))
        train_count == IntOfProduct(ratios[1])
        val_count == IntOfProduct(ratios[2])
    IN  [train |-> Slice(0, train_count),
         val |-> Slice(train_count, train_count + val_count),
         test |-> SubSeq(labeled_images, Bound(train_count + val_count) + 1, n)]

\* n labeled images are cut into the three lists, once, for percentages typed into
\* the DatasetSplitDialog that get_ratios accepts
SplitSlices ==
    \E n \in 0..MaxLabeled,
       pcts \in { <<70, 15, 15>>, <<60, 20, 21>>, <<100, 1, 0>>, <<150, -50, 0>>,
                  <<-50, 100, 50>>, <<-50, 50, 100>>, <<120, 30, -50>>, <<0, 0, 100>> } :
        LET r == get_ratios([i \in 1..3 |-> [num |-> TRUE, pct |-> pcts[i]]])
        IN  /\ lastOp.op = "init"
            /\ r.ok
            /\ StoreCommit(current_project, disk, "split_slices",
                           [n |-> n, pcts |-> pcts,
                            slices |-> split_slices([i \in 1..n |-> i], r.ratios)])

SpecSlices == Init /\ [][SplitSlices]_vars

\* C36: for every accepted ratio triple the train, val and test lists together hold
\* every labeled image exactly once.
C36_SlicesPartition ==
    lastOp.op = "split_slices" =>
        LET all == lastOp.res.slices.train \o lastOp.res.slices.val \o lastOp.res.slices.test
        IN  /\ Len(all) = lastOp.res.n
            /\ Range(all) = 1..lastOp.res.n

-----------------------------------------------------------------------------
(* Showing an image that has a record *)

\* C37: showing an image invokes the detector only for an image that has no record,
\* and leaves the annotations of every recorded image as they were; the records of
\* a project that is opened are those of its file.
C37_ShownRecordNotDetected ==
    [][ /\ (lastOp'.op \in {"next_image", "prev_image", "double_click", "complete_annotation"}
              /\ current_project # NoProject) =>
            /\ \A q \in Range(lastOp'.calls) :
                  q \notin DOMAIN current_project.processed_images
            /\ \A q \in DOMAIN current_project.processed_images :
                  /\ q \in DOMAIN current_project'.processed_images
                  /\ current_project'.processed_images[q].anns =
                        current_project.processed_images[q].anns
        /\ (lastOp'.op = "open_project" /\ lastOp'.res = "ok") =>
            \A q \in Range(lastOp'.calls) : q \notin DOMAIN disk'.data.annotations ]_vars

-----------------------------------------------------------------------------
(* The index of the displayed image *)

\* C38: current_image_idx is -1 or an index into the image_paths of the project.
C38_ImageIndexInRange ==
    \/ current_image_idx = -1
    \/ /\ current_project # NoProject
       /\ 0 <= current_image_idx
       /\ current_image_idx < Len(current_project.image_paths)

====
